---------------------------- MODULE Spec2Model ----------------------------
(***************************************************************************)
(* A model of the Bril optimizer passes of this repository: basic blocks,  *)
(* CFG and dominators (task3/cfg.py), SSA (task3/ssa.py), LICM             *)
(* (task3/licm.py), dead code elimination (task3/dce.py,                   *)
(* task4/pass_processor.py), alias analysis and dead store elimination     *)
(* (task4/aliasing.py) and local value numbering (task2/lvn.py).           *)
(*                                                                         *)
(* An instruction (a JSON object in the source) is a record with one field *)
(* per key the passes read.  A key that is absent in the JSON object is    *)
(* the field's "absent" value: label = "", op = "", dest = NoDest,         *)
(* args = <<>>, labels = <<>>, value = NoVal, type = "".                   *)
(***************************************************************************)
EXTENDS Integers, Sequences, FiniteSets, TLC

VARIABLES
    pc,         \* which pass has run: "input" before, the pass name after
    instrs,     \* fn['instrs']: the function handed to the pass
    cfg_class,  \* the CFG object the pass built (NoCFG before)
    out,        \* what the pass returned (NoOut before)
    work        \* pass-local state that lives across steps of one pass

vars == <<pc, instrs, cfg_class, out, work>>

(***************************************************************************)
(* Bounds of the model.                                                    *)
(***************************************************************************)
NumLabels == 2      \* labelled blocks after the entry block, in CFG inputs

(***************************************************************************)
(* bril_constants (the module is imported by every pass and is not among   *)
(* the sources; the sets are those of the specification, section 3).       *)
(***************************************************************************)
TERMINATING_INSTRUCTIONS == {"jmp", "br", "ret"}
COMMUTATIVE_OPERATIONS == {"add", "mul", "and", "or", "eq", "ne"}
SPECIAL_OPERATIONS == {"call", "alloc", "load", "store", "free", "print", "phi"}

(***************************************************************************)
(* Instructions.                                                           *)
(***************************************************************************)
NoDest == "<absent>"
\* a Python value: an int, a bool, a float n/d or a str (s, a sequence of
\* words whose concatenation is the string)
NoVal == [k |-> "none", n |-> 0, d |-> 1, s |-> <<>>]
IntVal(i) == [k |-> "int", n |-> i, d |-> 1, s |-> <<>>]
BoolVal(b) == [k |-> "bool", n |-> IF b THEN 1 ELSE 0, d |-> 1, s |-> <<>>]
StrVal(words) == [k |-> "str", n |-> 0, d |-> 1, s |-> words]

Instr(op, dest, type, args, labels, value) ==
    [label |-> "", op |-> op, dest |-> dest, type |-> type, args |-> args,
     labels |-> labels, value |-> value]
Label(l) ==
    [label |-> l, op |-> "", dest |-> NoDest, type |-> "", args |-> <<>>,
     labels |-> <<>>, value |-> NoVal]
Const(dest, type, value) == Instr("const", dest, type, <<>>, <<>>, value)
ValueOp(op, dest, type, args) == Instr(op, dest, type, args, <<>>, NoVal)
EffectOp(op, args) == Instr(op, NoDest, "", args, <<>>, NoVal)
Jmp(l) == Instr("jmp", NoDest, "", <<>>, <<l>>, NoVal)
Br(c, l1, l2) == Instr("br", NoDest, "", <<c>>, <<l1, l2>>, NoVal)
Ret == Instr("ret", NoDest, "", <<>>, <<>>, NoVal)

HasOp(instr) == instr.op # ""
HasLabel(instr) == instr.label # ""
HasDest(instr) == instr.dest # NoDest
HasArgs(instr) == instr.args # <<>>

(***************************************************************************)
(* Sequence helpers.                                                       *)
(***************************************************************************)
Range(s) == {s[i] : i \in DOMAIN s}
Last(s) == s[Len(s)]
AddUnique(s, x) == IF x \in Range(s) THEN s ELSE Append(s, x)
InsertAt(s, i, x) == SubSeq(s, 1, i - 1) \o <<x>> \o SubSeq(s, i, Len(s))
RemoveAt(s, i) == SubSeq(s, 1, i - 1) \o SubSeq(s, i + 1, Len(s))
\* list.index: the first position holding x (0 when there is none)
IndexOf(s, x) ==
    IF x \in Range(s) THEN CHOOSE i \in DOMAIN s : s[i] = x /\ \A j \in 1..(i - 1) : s[j] # x
    ELSE 0
\* list.remove(x): the first element equal to x is dropped
RemoveFirst(s, x) == IF IndexOf(s, x) = 0 THEN s ELSE RemoveAt(s, IndexOf(s, x))
RECURSIVE Concat(_)
Concat(ss) == IF ss = <<>> THEN <<>> ELSE Head(ss) \o Concat(Tail(ss))

(***************************************************************************)
(* task2/basic_blocks.py                                                   *)
(***************************************************************************)
BasicBlock(instructions) == [instructions |-> instructions, pred |-> <<>>, succ |-> <<>>]

\* blocks_generator without the yield after a terminating instruction
RECURSIVE blocks_generator_no_split(_, _, _, _)
blocks_generator_no_split(instructions, i, cur_block, yielded) ==
    IF i > Len(instructions)
    THEN IF cur_block # <<>> THEN Append(yielded, cur_block) ELSE yielded
    ELSE LET instr == instructions[i] IN
         IF HasOp(instr)
         THEN blocks_generator_no_split(instructions, i + 1, Append(cur_block, instr), yielded)
         ELSE blocks_generator_no_split(instructions, i + 1, <<instr>>,
                IF cur_block # <<>> THEN Append(yielded, cur_block) ELSE yielded)

RECURSIVE blocks_generator_from(_, _, _, _)
blocks_generator_from(instructions, i, cur_block, yielded) ==
    IF i > Len(instructions)
    THEN IF cur_block # <<>> THEN Append(yielded, cur_block) ELSE yielded
    ELSE LET instr == instructions[i] IN
         IF HasOp(instr)
         THEN IF instr.op \in TERMINATING_INSTRUCTIONS
              THEN blocks_generator_from(instructions, i + 1, <<>>,
                                         Append(yielded, Append(cur_block, instr)))
              ELSE blocks_generator_from(instructions, i + 1, Append(cur_block, instr), yielded)
         ELSE blocks_generator_from(instructions, i + 1, <<instr>>,
                                    IF cur_block # <<>> THEN Append(yielded, cur_block)
                                    ELSE yielded)

blocks_generator(instructions) == blocks_generator_from(instructions, 1, <<>>, <<>>)

create_blocks_from_function(instructions) ==
    LET gen == blocks_generator(instructions)
        all == [i \in DOMAIN gen |-> BasicBlock(gen[i])]
        has_instructions(b) == Len(b.instructions) > 0
    IN  SelectSeq(all, has_instructions)

(***************************************************************************)
(* task3/cfg.py.  The cfg dict is its keys in insertion order and the      *)
(* block each key maps to.  A Python exception ends the constructor: the   *)
(* object is then only its err field.                                      *)
(***************************************************************************)
DEFAULT_START_LABEL == "start_cfg"
DEFAULT_END_LABEL == "end_cfg"

EmptyMap == [l \in {} |-> {}]
NoCFG == [err |-> "none", reverse |-> FALSE, cfg |-> [keys |-> <<>>, blocks |-> EmptyMap],
          dominators |-> EmptyMap, dominance_frontiers |-> EmptyMap,
          dominance_tree |-> [nodes |-> {}, pred |-> EmptyMap, succ |-> EmptyMap],
          back_edges |-> {}, reducible |-> FALSE]
FailedCFG(e) == [NoCFG EXCEPT !.err = e]

block_label(block) ==
    IF HasLabel(block.instructions[1]) THEN block.instructions[1].label
    ELSE DEFAULT_START_LABEL

RECURSIVE cfg_keys(_, _, _)
cfg_keys(basic_blocks, i, keys) ==
    IF i > Len(basic_blocks) THEN keys
    ELSE cfg_keys(basic_blocks, i + 1, AddUnique(keys, block_label(basic_blocks[i])))

\* cfg[label] = block: a later block with the same label replaces the earlier
cfg_block_index(basic_blocks, label) ==
    CHOOSE i \in DOMAIN basic_blocks :
        /\ block_label(basic_blocks[i]) = label
        /\ \A j \in DOMAIN basic_blocks : block_label(basic_blocks[j]) = label => j <= i

\* add_to_successor(block, target); add_to_predecessor(cfg[target], label)
add_edge(blocks, reverse, label, target) ==
    IF reverse
    THEN LET b1 == [blocks EXCEPT ![label].pred = AddUnique(@, target)]
         IN  [b1 EXCEPT ![target].succ = AddUnique(@, label)]
    ELSE LET b1 == [blocks EXCEPT ![label].succ = AddUnique(@, target)]
         IN  [b1 EXCEPT ![target].pred = AddUnique(@, label)]

RECURSIVE add_edges(_, _, _, _)
add_edges(blocks, reverse, label, targets) ==
    IF targets = <<>> THEN blocks
    ELSE add_edges(add_edge(blocks, reverse, label, Head(targets)), reverse, label,
                   Tail(targets))

\* the targets the second loop of build_cfg links the block at `label` to
edge_targets(basic_blocks, keys, label, block) ==
    LET last_instr == Last(block.instructions)
        index_next_block == cfg_block_index(basic_blocks, label) + 1
        found == {l \in Range(keys) : cfg_block_index(basic_blocks, l) = index_next_block}
    IN  IF last_instr.op = "jmp" THEN <<last_instr.labels[1]>>
        ELSE IF last_instr.op = "br" THEN last_instr.labels
        ELSE IF index_next_block <= Len(basic_blocks)
             THEN <<IF found = {} THEN DEFAULT_END_LABEL ELSE CHOOSE l \in found : TRUE>>
             ELSE <<>>

RECURSIVE build_edges(_, _, _, _, _)
build_edges(basic_blocks, keys, blocks, reverse, k) ==
    IF k > Len(keys) THEN [err |-> "", keys |-> keys, blocks |-> blocks]
    ELSE LET label == keys[k]
             block == blocks[label]
         IN  IF ~HasOp(Last(block.instructions))
             THEN [err |-> "KeyError", keys |-> <<>>, blocks |-> EmptyMap]
             ELSE LET targets == edge_targets(basic_blocks, keys, label, block)
                  IN  IF \E i \in DOMAIN targets : targets[i] \notin Range(keys)
                      THEN [err |-> "KeyError", keys |-> <<>>, blocks |-> EmptyMap]
                      ELSE build_edges(basic_blocks, keys,
                                       add_edges(blocks, reverse, label, targets),
                                       reverse, k + 1)

build_cfg(basic_blocks, reverse) ==
    LET keys == cfg_keys(basic_blocks, 1, <<>>)
        blocks == [l \in Range(keys) |-> basic_blocks[cfg_block_index(basic_blocks, l)]]
    IN  build_edges(basic_blocks, keys, blocks, reverse, 1)

edges(cfg) ==
    {e \in Range(cfg.keys) \X Range(cfg.keys) : e[2] \in Range(cfg.blocks[e[1]].succ)}

IntersectAll(sets) ==
    IF sets = <<>> THEN {} ELSE {x \in sets[1] : \A i \in DOMAIN sets : x \in sets[i]}

RECURSIVE dominators_sweep(_, _, _, _)
dominators_sweep(cfg, dominators, k, changed) ==
    IF k > Len(cfg.keys) THEN [dominators |-> dominators, changed |-> changed]
    ELSE LET label == cfg.keys[k] IN
         IF label = DEFAULT_START_LABEL
         THEN dominators_sweep(cfg, dominators, k + 1, changed)
         ELSE LET in_dominators(p) == p \in DOMAIN dominators
                  preds == SelectSeq(cfg.blocks[label].pred, in_dominators)
                  predecessor_dom == [i \in DOMAIN preds |-> dominators[preds[i]]]
                  new_dominators == IntersectAll(predecessor_dom) \cup {label}
              IN  IF new_dominators # dominators[label]
                  THEN dominators_sweep(cfg, [dominators EXCEPT ![label] = new_dominators],
                                        k + 1, TRUE)
                  ELSE dominators_sweep(cfg, dominators, k + 1, changed)

RECURSIVE dominators_loop(_, _)
dominators_loop(cfg, dominators) ==
    LET r == dominators_sweep(cfg, dominators, 1, FALSE)
    IN  IF r.changed THEN dominators_loop(cfg, r.dominators) ELSE r.dominators

\* precondition (else KeyError): DEFAULT_START_LABEL is a key of the cfg
compute_dominators(cfg) ==
    dominators_loop(cfg, [l \in Range(cfg.keys) |->
                            IF l = DEFAULT_START_LABEL THEN {DEFAULT_START_LABEL} ELSE {}])

compute_dominance_frontiers(cfg, dominators) ==
    [label \in Range(cfg.keys) |->
        LET dominated_blocks == {vertex \in Range(cfg.keys) : label \in dominators[vertex]}
        IN  {succ \in Range(cfg.keys) :
                \E vertex \in dominated_blocks :
                    /\ succ \in Range(cfg.blocks[vertex].succ)
                    /\ (succ \notin dominated_blocks \/ label = succ)}]

immediate_dominator(cfg, dominators, label) ==
    LET doms == dominators[label] \ {label}
        dom_set(dom) == {vertex \in Range(cfg.keys) : dom \in dominators[vertex]}
    IN  {dom \in doms : \A dom2 \in doms : dom2 = dom \/ dom2 \notin dom_set(dom)}

RECURSIVE dominance_tree_from(_, _, _, _)
dominance_tree_from(cfg, dominators, k, tree) ==
    IF k > Len(cfg.keys) THEN tree
    ELSE LET label == cfg.keys[k]
             idom == immediate_dominator(cfg, dominators, label)
             is_idom(l) == l \in idom
             nodes == SelectSeq(cfg.keys, is_idom)
         IN  dominance_tree_from(cfg, dominators, k + 1,
                [nodes |-> tree.nodes \cup (IF idom = {} THEN {} ELSE idom \cup {label}),
                 succ |-> [l \in Range(cfg.keys) |->
                             IF l \in idom THEN Append(tree.succ[l], label) ELSE tree.succ[l]],
                 pred |-> [tree.pred EXCEPT ![label] = @ \o nodes]])

build_dominance_tree(cfg, dominators) ==
    dominance_tree_from(cfg, dominators, 1,
        [nodes |-> {}, pred |-> [l \in Range(cfg.keys) |-> <<>>],
         succ |-> [l \in Range(cfg.keys) |-> <<>>]])

compute_back_edges(cfg, dominators) ==
    {e \in edges(cfg) : e[2] \in dominators[e[1]]}

\* the nodes that `from` reaches over the edge set es, itself included
RECURSIVE Closure(_, _)
Closure(es, seen) ==
    LET more == seen \cup {e[2] : e \in {e \in es : e[1] \in seen}}
    IN  IF more = seen THEN seen ELSE Closure(es, more)
Reach(es, from) == Closure(es, {from})

\* is_cyclic(start): the depth-first search with a recursion stack finds a
\* cycle iff one can be reached from the start label over the edges left
is_reducible(cfg, back_edges) ==
    LET cfg_edges == edges(cfg) \ back_edges
    IN  ~ \E e \in cfg_edges :
            /\ e[1] \in Reach(cfg_edges, DEFAULT_START_LABEL)
            /\ e[1] \in Reach(cfg_edges, e[2])

reachable(cfg, source, dest) == dest \in Reach(edges(cfg), source)

CFG(basic_blocks, reverse) ==
    LET cfg == build_cfg(basic_blocks, reverse) IN
    IF cfg.err # "" THEN FailedCFG(cfg.err)
    ELSE IF DEFAULT_START_LABEL \notin Range(cfg.keys) THEN FailedCFG("KeyError")
    ELSE LET c == [keys |-> cfg.keys, blocks |-> cfg.blocks]
             dominators == compute_dominators(c)
             back_edges == compute_back_edges(c, dominators)
         IN  [err |-> "", reverse |-> reverse, cfg |-> c,
              dominators |-> dominators,
              dominance_frontiers |-> compute_dominance_frontiers(c, dominators),
              dominance_tree |-> build_dominance_tree(c, dominators),
              back_edges |-> back_edges,
              reducible |-> is_reducible(c, back_edges)]

create_cfg_from_function(instructions, reverse) ==
    CFG(create_blocks_from_function(instructions), reverse)

instructions_from_cfg(cfg) ==
    Concat([i \in DOMAIN cfg.keys |-> cfg.blocks[cfg.keys[i]].instructions])

(***************************************************************************)
(* get_loop_information.  set.remove raises KeyError when the edge has     *)
(* already been removed: a back edge from the header to itself is removed  *)
(* by both tests.                                                          *)
(***************************************************************************)
RECURSIVE loop_nodes(_, _)
loop_nodes(cfg_edges, new_nodes) ==
    LET grown == new_nodes \cup {e[1] : e \in {e \in cfg_edges : e[2] \in new_nodes}}
    IN  IF grown = new_nodes THEN new_nodes ELSE loop_nodes(cfg_edges, grown)

get_loop_information(c, backedge) ==
    LET tail == backedge[1]
        header == backedge[2]
        removed == {e \in c.back_edges : e[2] = header \/ e[1] = header}
        cfg_edges == edges(c.cfg) \ removed
    IN  IF \E e \in c.back_edges : e[2] = header /\ e[1] = header
        THEN [err |-> "KeyError", backedge |-> backedge, header |-> header, nodes |-> {}]
        ELSE [err |-> "", backedge |-> backedge, header |-> header,
              nodes |-> loop_nodes(cfg_edges, {tail}) \cup {header}]

(***************************************************************************)
(* Input functions.  A function is an entry block without a label followed *)
(* by n labelled blocks; every block is a body and a terminator (or none:  *)
(* the block falls through).                                               *)
(***************************************************************************)
LabelNames == <<"A", "B", "C", "D", "E">>
Labels(n) == {LabelNames[i] : i \in 1..n}

Terminators(n, cond) ==
    {<<>>, <<Ret>>} \cup {<<Jmp(l)>> : l \in Labels(n)}
    \cup {<<Br(cond, l1, l2)>> : l1 \in Labels(n), l2 \in Labels(n)}

MkFunction(n, body, term) ==
    Concat([i \in 1..(n + 1) |->
              (IF i = 1 THEN <<>> ELSE <<Label(LabelNames[i - 1])>>) \o body[i] \o term[i]])

Functions(n, entry_bodies, bodies, terms) ==
    {MkFunction(n, body, term) :
        body \in {b \in [1..(n + 1) -> entry_bodies \cup bodies] :
                     b[1] \in entry_bodies /\ \A i \in 2..(n + 1) : b[i] \in bodies},
        term \in [1..(n + 1) -> terms]}

NoOut == [err |-> "none", instrs |-> <<>>]
Returned(instructions) == [err |-> "", instrs |-> instructions]
Raised(e) == [err |-> e, instrs |-> <<>>]
NoWork == <<>>

(***************************************************************************)
(* Basic blocks: create_blocks_from_function on every list of at most      *)
(* MaxInstrs labels, terminators and other instructions.                   *)
(***************************************************************************)
MaxInstrs == 4

BlockInstructions ==
    {Label("A"), Label("B"), EffectOp("nop", <<>>), Ret, Jmp("A"), Br("c", "A", "B")}

InitBlocks ==
    /\ pc = "input"
    /\ instrs \in UNION {[1..k -> BlockInstructions] : k \in 0..MaxInstrs}
    /\ cfg_class = NoCFG
    /\ out = NoOut
    /\ work = NoWork

\* work is the list of blocks returned
CreateBlocks ==
    /\ pc = "input"
    /\ work' = create_blocks_from_function(instrs)
    /\ pc' = "blocks"
    /\ UNCHANGED <<instrs, cfg_class, out>>

NextBlocks == CreateBlocks

SpecBlocks == InitBlocks /\ [][NextBlocks]_vars

(***************************************************************************)
(* C16.  The blocks create_blocks_from_function returns, concatenated in   *)
(* order, are the input list; no block is empty; in a block only the first *)
(* instruction can be a Label and only the last can be jmp, br or ret.     *)
(***************************************************************************)
C16_BlocksPartition ==
    pc = "blocks" =>
        /\ Concat([b \in DOMAIN work |-> work[b].instructions]) = instrs
        /\ \A b \in DOMAIN work :
            LET block == work[b].instructions IN
            /\ block # <<>>
            /\ \A i \in 2..Len(block) : ~HasLabel(block[i])
            /\ \A i \in 1..(Len(block) - 1) : block[i].op \notin TERMINATING_INSTRUCTIONS

\* a terminator in the middle of the list, followed by an instruction that
\* is no Label, and a Label after an instruction that is no terminator
C16_Witness ==
    /\ pc = "blocks"
    /\ Len(work) >= 3
    /\ \E i \in 1..(Len(instrs) - 1) :
        instrs[i].op \in TERMINATING_INSTRUCTIONS /\ HasOp(instrs[i + 1])
    /\ \E i \in 1..(Len(instrs) - 1) :
        instrs[i].op = "nop" /\ HasLabel(instrs[i + 1])

(***************************************************************************)
(* CFG construction: CFG.create_cfg_from_function on every shape of        *)
(* NumLabels + 1 blocks.                                                   *)
(***************************************************************************)
Nop == EffectOp("nop", <<>>)
CfgFunctions == Functions(NumLabels, {<<Nop>>}, {<<>>, <<Nop>>}, Terminators(NumLabels, "c"))

InitCFG ==
    /\ pc = "input"
    /\ instrs \in CfgFunctions
    /\ cfg_class = NoCFG
    /\ out = NoOut
    /\ work = NoWork

CreateCFG(reverse) ==
    /\ pc = "input"
    /\ cfg_class' = create_cfg_from_function(instrs, reverse)
    /\ pc' = "cfg"
    /\ UNCHANGED <<instrs, out, work>>

LoopInformation(backedge) ==
    /\ pc = "cfg"
    /\ cfg_class.err = ""
    /\ backedge \in cfg_class.back_edges
    /\ work' = get_loop_information(cfg_class, backedge)
    /\ pc' = "loop_info"
    /\ UNCHANGED <<instrs, cfg_class, out>>

NextCFG ==
    \/ \E reverse \in BOOLEAN : CreateCFG(reverse)
    \/ \E backedge \in cfg_class.back_edges : LoopInformation(backedge)

SpecCFG == InitCFG /\ [][NextCFG]_vars

(***************************************************************************)
(* C1.  After CFG construction every block v reachable from the start      *)
(* block has start in dom(v), v in dom(v), and every block u that lies on  *)
(* every path from start to v in dom(v); cyclic CFGs included.             *)
(***************************************************************************)
\* u lies on every path from the start label to the reachable block v
OnEveryPath(cfg, u, v) ==
    \/ u = v
    \/ u = DEFAULT_START_LABEL
    \/ v \notin Reach({e \in edges(cfg) : e[1] # u /\ e[2] # u}, DEFAULT_START_LABEL)

C1_DominatorCorrectness ==
    (pc = "cfg" /\ cfg_class.err = "") =>
        \A v \in Reach(edges(cfg_class.cfg), DEFAULT_START_LABEL) :
            \A u \in Range(cfg_class.cfg.keys) :
                OnEveryPath(cfg_class.cfg, u, v) => u \in cfg_class.dominators[v]

(***************************************************************************)
(* C19.  For a back edge (tail, head), a self-loop included,               *)
(* get_loop_information returns as nodes head and the blocks from which    *)
(* tail is reached without passing through head, and no other block: no    *)
(* preheader and no block on the way from start to head.                   *)
(***************************************************************************)
C19_NaturalLoopBody ==
    pc = "loop_info" =>
        LET tail == work.backedge[1]
            head == work.backedge[2]
            below == {e \in edges(cfg_class.cfg) : e[1] # head /\ e[2] # head}
        IN  /\ work.err = ""
            /\ work.nodes =
                {head} \cup {n \in Range(cfg_class.cfg.keys) \ {head} : tail \in Reach(below, n)}

(***************************************************************************)
(* C23.  CFG.reducible is true if and only if the CFG with all back edges  *)
(* removed is acyclic, a back edge being an edge (tail, head) whose head   *)
(* is on every path from start to tail; a CFG of properly nested natural   *)
(* loops is reported reducible.                                            *)
(***************************************************************************)
C23_Reducibility ==
    (pc = "cfg" /\ cfg_class.err = "" /\ ~cfg_class.reverse) =>
        LET back == {e \in edges(cfg_class.cfg) : OnEveryPath(cfg_class.cfg, e[2], e[1])}
            forward == edges(cfg_class.cfg) \ back
            acyclic == \A e \in forward : e[1] \notin Reach(forward, e[2])
        IN  cfg_class.reducible <=> acyclic

(***************************************************************************)
(* C14.  After build_cfg with reverse = False the successors of a block    *)
(* are the target of its final jmp, the two targets of its final br, none  *)
(* when it ends in ret, wherever the block is in the function, and         *)
(* otherwise the one block that follows it in source order.                *)
(***************************************************************************)
C14_SuccessorRule ==
    (pc = "cfg" /\ cfg_class.err = "" /\ ~cfg_class.reverse) =>
        \A k \in DOMAIN cfg_class.cfg.keys :
            LET block == cfg_class.cfg.blocks[cfg_class.cfg.keys[k]]
                last_instr == Last(block.instructions)
            IN  Range(block.succ) =
                    CASE last_instr.op = "jmp" -> {last_instr.labels[1]}
                      [] last_instr.op = "br" -> Range(last_instr.labels)
                      [] last_instr.op = "ret" -> {}
                      [] OTHER -> IF k < Len(cfg_class.cfg.keys)
                                  THEN {cfg_class.cfg.keys[k + 1]} ELSE {}

(***************************************************************************)
(* task3/ssa.py                                                            *)
(***************************************************************************)
\* every instruction of the cfg with the label of its block, in dict order
labelled_instructions(cfg) ==
    Concat([k \in DOMAIN cfg.keys |->
              [i \in DOMAIN cfg.blocks[cfg.keys[k]].instructions |->
                  [block |-> cfg.keys[k], idx |-> i,
                   instr |-> cfg.blocks[cfg.keys[k]].instructions[i]]]])

get_defs_uses_types_inputs(cfg) ==
    LET all == labelled_instructions(cfg)
        used == UNION {Range(all[p].instr.args) : p \in DOMAIN all}
        defined == {all[p].instr.dest : p \in {q \in DOMAIN all : HasDest(all[q].instr)}}
        occurs(v, p) == v \in Range(all[p].instr.args) \/ all[p].instr.dest = v
        first(v) == CHOOSE p \in DOMAIN all :
                        occurs(v, p) /\ \A q \in 1..(p - 1) : ~occurs(v, q)
        last_def(v) == CHOOSE p \in DOMAIN all :
                        all[p].instr.dest = v
                        /\ \A q \in DOMAIN all : all[q].instr.dest = v => q <= p
    IN  [defs |-> [v \in defined |->
                     {all[p].block : p \in {q \in DOMAIN all : all[q].instr.dest = v}}],
         types |-> [v \in defined |-> all[last_def(v)].instr.type],
         uses |-> [v \in used |->
                     {all[p].block : p \in {q \in DOMAIN all : v \in Range(all[q].instr.args)}}],
         input_variables |-> [v \in used \cup defined |-> v \in Range(all[first(v)].instr.args)]]

\* the blocks find_phi_blocks adds to defs[variable]: one pass over the
\* dominance frontiers of the blocks that define the variable
phi_blocks_of(dominance_frontier, defs, variable) ==
    IF Cardinality(defs[variable]) <= 1 THEN {}
    ELSE UNION {dominance_frontier[label] : label \in defs[variable]}

\* phi_blocks: block -> variables (its keys are the blocks with a variable)
find_phi_blocks(dominance_frontier, defs) ==
    LET with_phi == UNION {phi_blocks_of(dominance_frontier, defs, v) : v \in DOMAIN defs}
    IN  [block \in with_phi |->
            {v \in DOMAIN defs : block \in phi_blocks_of(dominance_frontier, defs, v)}]

\* defs as find_phi_blocks leaves it (defs[variable].add(block))
defs_after_phi(dominance_frontier, defs) ==
    [v \in DOMAIN defs |-> defs[v] \cup phi_blocks_of(dominance_frontier, defs, v)]

new_name(old_name, stack) == old_name \o "." \o ToString(Len(stack[old_name]))

RECURSIVE rename_instructions(_, _, _, _, _)
rename_instructions(instructions, i, stack, input_variables, done) ==
    IF i > Len(instructions) THEN [instructions |-> done, stack |-> stack]
    ELSE LET instruction == instructions[i]
             args == [a \in DOMAIN instruction.args |->
                        LET arg == instruction.args[a] IN
                        IF arg \in DOMAIN stack /\ Len(stack[arg]) > 0
                        THEN Last(stack[arg]) ELSE arg]
             renamed == [instruction EXCEPT !.args = args]
         IN  IF ~HasDest(instruction)
                \/ (instruction.dest \in DOMAIN input_variables
                    /\ input_variables[instruction.dest])
             THEN rename_instructions(instructions, i + 1, stack, input_variables,
                                      Append(done, renamed))
             ELSE LET old_name == instruction.dest
                      new_dest == new_name(old_name, stack)
                  IN  rename_instructions(instructions, i + 1,
                          [stack EXCEPT ![old_name] = Append(@, new_dest)], input_variables,
                          Append(done, [renamed EXCEPT !.dest = new_dest]))

\* the (successor, variable) pairs whose phi gets an argument from block_name
phi_targets(c, phi_blocks, block_name) ==
    {t \in Range(c.cfg.blocks[block_name].succ) \X (UNION {phi_blocks[b] : b \in DOMAIN phi_blocks}) :
        t[1] \in DOMAIN phi_blocks /\ t[2] \in phi_blocks[t[1]]}

\* on a self-loop the block appears once in its successor list, so every
\* phi gets at most one argument per call
add_phi_args(mapping, targets, defs, stack, block_name) ==
    [t \in DOMAIN mapping |->
        IF t \in targets
        THEN [mapping[t] EXCEPT
                !.args = Append(@, IF block_name \in defs[t[2]] THEN Last(stack[t[2]])
                                   ELSE "undef"),
                !.labels = Append(@, block_name)]
        ELSE mapping[t]]

RECURSIVE rename_helper(_, _, _, _)
RECURSIVE rename_children(_, _, _, _, _)
rename_helper(ctx, st, stack, block_name) ==
    IF st.err # "" THEN st
    ELSE
    LET c == ctx.cfg_class
        phis == IF block_name \in DOMAIN ctx.phi_blocks THEN ctx.phi_blocks[block_name] ELSE {}
        stack1 == [v \in DOMAIN stack |->
                     IF v \in phis THEN Append(stack[v], new_name(v, stack)) ELSE stack[v]]
        mapping1 == [t \in DOMAIN st.mapping |->
                       IF t[1] = block_name
                       THEN [st.mapping[t] EXCEPT !.dest = new_name(t[2], stack)]
                       ELSE st.mapping[t]]
        r == rename_instructions(st.blocks[block_name].instructions, 1, stack1,
                                 ctx.input_variables, <<>>)
        blocks1 == [st.blocks EXCEPT ![block_name].instructions = r.instructions]
        targets == phi_targets(c, ctx.phi_blocks, block_name)
    IN  IF \E t \in targets : block_name \in ctx.defs[t[2]] /\ r.stack[t[2]] = <<>>
        THEN [st EXCEPT !.err = "IndexError"]
        ELSE IF block_name \notin c.dominance_tree.nodes
        THEN [st EXCEPT !.err = "KeyError"]
        ELSE rename_children(ctx,
                [err |-> "", blocks |-> blocks1,
                 mapping |-> add_phi_args(mapping1, targets, ctx.defs, r.stack, block_name)],
                r.stack, c.dominance_tree.succ[block_name], 1)

rename_children(ctx, st, stack, successors, k) ==
    IF k > Len(successors) THEN st
    ELSE rename_children(ctx, rename_helper(ctx, st, stack, successors[k]), stack,
                         successors, k + 1)

rename_variables(c, phi_blocks, defs, input_variables) ==
    LET pairs == {t \in (DOMAIN phi_blocks) \X (DOMAIN defs) : t[2] \in phi_blocks[t[1]]}
        phi_node_info == [dest |-> "", labels |-> <<>>, args |-> <<>>]
    IN  rename_helper([cfg_class |-> c, phi_blocks |-> phi_blocks, defs |-> defs,
                       input_variables |-> input_variables],
                      [err |-> "", blocks |-> c.cfg.blocks,
                       mapping |-> [t \in pairs |-> phi_node_info]],
                      [v \in DOMAIN defs |-> <<>>], c.cfg.keys[1])

Phi(dest, type, labels, args) == Instr("phi", dest, type, args, labels, NoVal)

\* the phis of one block, each inserted at index 0; var_order is the order
\* in which the dict of the block's variables is iterated
RECURSIVE insert_block_phis(_, _, _, _, _, _)
insert_block_phis(instructions, block_name, mapping, types, var_order, k) ==
    IF k > Len(var_order) THEN instructions
    ELSE LET t == <<block_name, var_order[k]>> IN
         insert_block_phis(
            IF t \in DOMAIN mapping
            THEN <<Phi(mapping[t].dest, types[t[2]], mapping[t].labels, mapping[t].args)>>
                 \o instructions
            ELSE instructions,
            block_name, mapping, types, var_order, k + 1)

insert_phi_nodes(blocks, mapping, types, var_order) ==
    [b \in DOMAIN blocks |->
        [blocks[b] EXCEPT
            !.instructions = insert_block_phis(@, b, mapping, types, var_order, 1)]]

\* cfg_to_ssa: the CFG object with its blocks rewritten, or err when a step raised
cfg_to_ssa(c, var_order) ==
    LET info == get_defs_uses_types_inputs(c.cfg)
        phi_blocks == find_phi_blocks(c.dominance_frontiers, info.defs)
        defs == defs_after_phi(c.dominance_frontiers, info.defs)
        st == rename_variables(c, phi_blocks, defs, info.input_variables)
    IN  IF st.err # "" THEN FailedCFG(st.err)
        ELSE [c EXCEPT !.cfg.blocks =
                 insert_phi_nodes(st.blocks, st.mapping, info.types, var_order)]

check_ssa(instructions) ==
    \A i, j \in DOMAIN instructions :
        (HasDest(instructions[i]) /\ HasDest(instructions[j])
         /\ instructions[i].dest = instructions[j].dest) => i = j

\* phi_copies without the test for a terminator: every copy is appended
RECURSIVE phi_copies_appended(_, _, _)
phi_copies_appended(blocks, instr, i) ==
    IF i > Len(instr.labels) THEN [err |-> "", blocks |-> blocks]
    ELSE IF instr.args[i] = "undef" THEN phi_copies_appended(blocks, instr, i + 1)
    ELSE phi_copies_appended(
            [blocks EXCEPT ![instr.labels[i]].instructions =
                Append(@, Instr("id", instr.dest, instr.type, <<instr.args[i]>>, <<>>, NoVal))],
            instr, i + 1)

\* the copies of one phi, inserted block by block
RECURSIVE phi_copies(_, _, _)
phi_copies(blocks, instr, i) ==
    IF i > Len(instr.labels) THEN [err |-> "", blocks |-> blocks]
    ELSE LET label == instr.labels[i]
             var == instr.args[i]
             copy_instr == Instr("id", instr.dest, instr.type, <<var>>, <<>>, NoVal)
             target == blocks[label].instructions
         IN  IF var = "undef" THEN phi_copies(blocks, instr, i + 1)
             ELSE IF ~HasOp(Last(target)) THEN [err |-> "KeyError", blocks |-> blocks]
             ELSE phi_copies(
                    [blocks EXCEPT ![label].instructions =
                        IF Last(target).op \in TERMINATING_INSTRUCTIONS
                        THEN InsertAt(target, Len(target), copy_instr)
                        ELSE Append(target, copy_instr)],
                    instr, i + 1)

RECURSIVE block_phi_copies(_, _, _)
block_phi_copies(blocks, phis, k) ==
    IF k > Len(phis) THEN [err |-> "", blocks |-> blocks]
    ELSE LET r == phi_copies(blocks, phis[k], 1)
         IN  IF r.err # "" THEN r ELSE block_phi_copies(r.blocks, phis, k + 1)

RECURSIVE ssa_to_cfg_from(_, _, _)
ssa_to_cfg_from(keys, blocks, k) ==
    IF k > Len(keys) THEN [err |-> "", blocks |-> blocks]
    ELSE LET is_phi(instr) == instr.op = "phi"
             not_phi(instr) == instr.op # "phi"
             r == block_phi_copies(blocks, SelectSeq(blocks[keys[k]].instructions, is_phi), 1)
         IN  IF r.err # "" THEN r
             ELSE ssa_to_cfg_from(keys,
                    [r.blocks EXCEPT ![keys[k]].instructions = SelectSeq(@, not_phi)], k + 1)

ssa_to_cfg(cfg) == ssa_to_cfg_from(cfg.keys, cfg.blocks, 1)

(***************************************************************************)
(* Meaning of a Bril function, used to state that a pass preserves it: the *)
(* values printed along the run chosen by the parameters, and whether the  *)
(* run read a variable that no instruction had assigned.                   *)
(***************************************************************************)
MaxSteps == 10      \* instructions executed by one run of the input function

Unassigned == [k |-> "unassigned", n |-> 0, d |-> 1, s |-> <<>>]
variables_of(instructions) ==
    UNION {Range(instructions[i].args) \cup {instructions[i].dest} : i \in DOMAIN instructions}

label_position(instructions, l) ==
    IF \E i \in DOMAIN instructions : instructions[i].label = l
    THEN CHOOSE i \in DOMAIN instructions : instructions[i].label = l
    ELSE 0

arith(op, a, b) ==
    CASE op = "add" -> IntVal(a.n + b.n)
      [] op = "sub" -> IntVal(a.n - b.n)
      [] op = "mul" -> IntVal(a.n * b.n)
      [] op = "lt" -> BoolVal(a.n < b.n)
      [] op = "eq" -> BoolVal(a.n = b.n)
      [] op = "and" -> BoolVal(a.n = 1 /\ b.n = 1)
      [] op = "or" -> BoolVal(a.n = 1 \/ b.n = 1)
      [] OTHER -> Unassigned

RECURSIVE execute_from(_, _, _, _, _)
execute_from(instructions, ip, env, trace, fuel) ==
    IF ip > Len(instructions) THEN [status |-> "done", trace |-> trace, ip |-> ip]
    ELSE IF fuel = 0 THEN [status |-> "fuel", trace |-> trace, ip |-> ip]
    ELSE
    LET instr == instructions[ip]
        val(i) == env[instr.args[i]]
    IN  IF \E i \in DOMAIN instr.args : val(i) = Unassigned
        THEN [status |-> "unassigned", trace |-> trace, ip |-> ip]
        ELSE CASE instr.op \in {"", "nop"} ->
                    execute_from(instructions, ip + 1, env, trace, fuel - 1)
               [] instr.op = "const" ->
                    execute_from(instructions, ip + 1, [env EXCEPT ![instr.dest] = instr.value],
                             trace, fuel - 1)
               [] instr.op = "id" ->
                    execute_from(instructions, ip + 1, [env EXCEPT ![instr.dest] = val(1)],
                             trace, fuel - 1)
               [] instr.op = "print" ->
                    execute_from(instructions, ip + 1, env,
                             trace \o [i \in DOMAIN instr.args |-> val(i)], fuel - 1)
               [] instr.op = "jmp" ->
                    execute_from(instructions, label_position(instructions, instr.labels[1]),
                             env, trace, fuel - 1)
               [] instr.op = "br" ->
                    execute_from(instructions,
                             label_position(instructions,
                                            instr.labels[IF val(1).n = 1 THEN 1 ELSE 2]),
                             env, trace, fuel - 1)
               [] instr.op = "ret" -> [status |-> "done", trace |-> trace, ip |-> ip]
               [] instr.op = "load" ->      \* memory the function never writes holds 0
                    execute_from(instructions, ip + 1, [env EXCEPT ![instr.dest] = IntVal(0)],
                             trace, fuel - 1)
               [] OTHER ->
                    execute_from(instructions, ip + 1,
                             [env EXCEPT ![instr.dest] = arith(instr.op, val(1), val(2))],
                             trace, fuel - 1)

\* one run: params gives the value of every parameter of the function
execute(instructions, params, fuel) ==
    execute_from(instructions, 1,
             [v \in variables_of(instructions) \cup DOMAIN params |->
                 IF v \in DOMAIN params THEN params[v] ELSE Unassigned],
             <<>>, fuel)

IsPrefix(s, t) == Len(s) <= Len(t) /\ SubSeq(t, 1, Len(s)) = s

\* the transformed function does what the original does on this run
SameBehaviour(original, transformed, params) ==
    LET a == execute(original, params, MaxSteps)
        b == execute(transformed, params, 4 * MaxSteps)
    IN  /\ b.status # "unassigned"
        /\ a.status = "done" => b.status = "done" /\ b.trace = a.trace
        /\ a.status = "fuel" => IsPrefix(a.trace, b.trace) \/ IsPrefix(b.trace, a.trace)

BoolParams(names) == [names -> {BoolVal(TRUE), BoolVal(FALSE)}]

\* well-formed: no run reads a variable before it is assigned
WellFormed(instructions, valuations) ==
    \A params \in valuations : execute(instructions, params, MaxSteps).status # "unassigned"

Permutations_of(S) ==
    {s \in [1..Cardinality(S) -> S] : \A i, j \in DOMAIN s : s[i] = s[j] => i = j}

(***************************************************************************)
(* SSA: cfg_to_ssa followed by ssa_to_cfg, on every shape of NumLabels + 1 *)
(* blocks that assign, update and print one variable, and on the two       *)
(* conditionals that join again.                                           *)
(***************************************************************************)
print_instr(v) == EffectOp("print", <<v>>)
x_const(n) == Const("x", "int", IntVal(n))
x_update == ValueOp("add", "x", "int", <<"x", "x">>)

\* if (c) x = 2 else x = 3; print x
Diamond ==
    <<x_const(1), Br("c", "A", "B"),
      Label("A"), x_const(2), Jmp("C"),
      Label("B"), x_const(3), Jmp("C"),
      Label("C"), print_instr("x"), Ret>>
\* x = 1; if (c) x = 2; print x      (the else arm is empty)
DiamondEmptyArm ==
    <<x_const(1), Br("c", "A", "B"),
      Label("A"), x_const(2), Jmp("C"),
      Label("B"), Jmp("C"),
      Label("C"), print_instr("x"), Ret>>

SsaParams == BoolParams({"c"})
SsaFunctions ==
    {f \in Functions(NumLabels, {<<x_const(1)>>},
                     {<<print_instr("x")>>, <<x_const(2)>>, <<x_update>>},
                     Terminators(NumLabels, "c")) \cup {Diamond, DiamondEmptyArm} :
        WellFormed(f, SsaParams)}

InitSSA ==
    /\ pc = "input"
    /\ instrs \in SsaFunctions
    /\ cfg_class = NoCFG
    /\ out = NoOut
    /\ work = NoWork

\* CFG.create_cfg_from_function, then SSA.cfg_to_ssa on the CFG object
ToSSA(var_order) ==
    /\ pc = "input"
    /\ LET c == create_cfg_from_function(instrs, FALSE)
           ssa == IF c.err # "" THEN c ELSE cfg_to_ssa(c, var_order)
       IN  /\ cfg_class' = ssa
           /\ out' = IF ssa.err # "" THEN Raised(ssa.err)
                     ELSE Returned(instructions_from_cfg(ssa.cfg))
    /\ pc' = "ssa"
    /\ UNCHANGED <<instrs, work>>

\* SSA.ssa_to_cfg on the blocks cfg_to_ssa left
FromSSA ==
    /\ pc = "ssa"
    /\ cfg_class.err = ""
    /\ LET r == ssa_to_cfg(cfg_class.cfg)
       IN  /\ cfg_class' = IF r.err # "" THEN FailedCFG(r.err)
                           ELSE [cfg_class EXCEPT !.cfg.blocks = r.blocks]
           /\ out' = IF r.err # "" THEN Raised(r.err)
                     ELSE Returned(instructions_from_cfg([cfg_class.cfg EXCEPT !.blocks = r.blocks]))
    /\ pc' = "round_trip"
    /\ UNCHANGED <<instrs, work>>

NextSSA ==
    \/ \E var_order \in Permutations_of(variables_of(instrs) \ {NoDest}) : ToSSA(var_order)
    \/ FromSSA

SpecSSA == InitSSA /\ [][NextSSA]_vars

(***************************************************************************)
(* C2.  After cfg_to_ssa on a well-formed function every dest name is      *)
(* defined by at most one instruction (check_ssa returns true), whatever   *)
(* the control flow.                                                       *)
(***************************************************************************)
C2_SingleAssignment ==
    (pc = "ssa" /\ out.err = "") => check_ssa(out.instrs)

(***************************************************************************)
(* C3.  cfg_to_ssa followed by ssa_to_cfg gives a function that behaves as *)
(* the original on every input and reads only variables that have been     *)
(* assigned on the path taken.                                             *)
(***************************************************************************)
C3_RoundTrip ==
    (pc = "round_trip" /\ out.err = "") =>
        \A params \in SsaParams : SameBehaviour(instrs, out.instrs, params)

(***************************************************************************)
(* C22.  After cfg_to_ssa, in every block that has a Label the Label is    *)
(* still the first instruction of the block and every phi of the block     *)
(* comes after the Label and before every other instruction, so that the   *)
(* flattened list puts each phi in the block it was placed for.            *)
(***************************************************************************)
C22_PhiPosition ==
    (pc = "ssa" /\ cfg_class.err = "") =>
        \A b \in Range(cfg_class.cfg.keys) :
            LET instructions == cfg_class.cfg.blocks[b].instructions
            IN  (\E i \in DOMAIN instructions : HasLabel(instructions[i])) =>
                    /\ HasLabel(instructions[1])
                    /\ \A i, j \in DOMAIN instructions :
                          (instructions[i].op = "phi" /\ instructions[j].op # "phi")
                          => (j < i <=> HasLabel(instructions[j]))

(***************************************************************************)
(* C28.  After ssa_to_cfg no block contains a phi, and for every phi       *)
(* `v = phi(a_i from L_i)` there was and every i with a_i other than       *)
(* undef, block L_i contains the copy `v = id a_i`, of the type of the     *)
(* phi, before the terminator of L_i, or at the end of L_i when it has no  *)
(* terminator.                                                             *)
(***************************************************************************)
C28_SsaDestruction ==
    [][(pc = "ssa" /\ pc' = "round_trip" /\ out'.err = "") =>
        LET phis == {instr \in Range(out.instrs) : instr.op = "phi"}
            is_copy(instr) == instr.op = "id" /\ \E phi \in phis : instr.dest = phi.dest
        IN  /\ \A b \in Range(cfg_class'.cfg.keys) :
                  \A instr \in Range(cfg_class'.cfg.blocks[b].instructions) : instr.op # "phi"
            /\ \A phi \in phis : \A i \in DOMAIN phi.labels :
                  phi.args[i] # "undef" =>
                      LET block == cfg_class'.cfg.blocks[phi.labels[i]].instructions
                          copy_instr == Instr("id", phi.dest, phi.type, <<phi.args[i]>>,
                                              <<>>, NoVal)
                      IN  \E k \in DOMAIN block :
                              /\ block[k] = copy_instr
                              /\ \A j \in 1..(k - 1) :
                                    block[j].op \notin TERMINATING_INSTRUCTIONS
                              /\ \A j \in (k + 1)..Len(block) :
                                    \/ is_copy(block[j])
                                    \/ (j = Len(block)
                                        /\ block[j].op \in TERMINATING_INSTRUCTIONS)]_vars

\* ssa_to_cfg has returned and left a copy of a phi in front of a jmp or br
\* and another at the end of a block that falls through
C28_Witness ==
    /\ pc = "round_trip"
    /\ out.err = ""
    /\ \E b1, b2 \in Range(cfg_class.cfg.keys) :
          LET copies_to(b) == {k \in DOMAIN cfg_class.cfg.blocks[b].instructions :
                                 LET instr == cfg_class.cfg.blocks[b].instructions[k]
                                 IN  /\ instr.op = "id"
                                     /\ instr \notin Range(instrs)}
          IN  /\ \E k \in copies_to(b1) :
                    /\ k + 1 = Len(cfg_class.cfg.blocks[b1].instructions)
                    /\ Last(cfg_class.cfg.blocks[b1].instructions).op \in {"jmp", "br"}
              /\ \E k \in copies_to(b2) : k = Len(cfg_class.cfg.blocks[b2].instructions)

(***************************************************************************)
(* Phi placement: find_phi_blocks on the dominance frontiers of functions  *)
(* of five blocks, in which the entry block and some of the blocks A to D  *)
(* assign x, and then rename_variables with the phi blocks found.          *)
(***************************************************************************)
PhiFunctions ==
    {<<x_const(1), Br("c", "A", "B"), Label("A")>> \o a \o ta \o <<Label("B")>> \o b \o tb
        \o <<Label("C")>> \o c \o tc \o <<Label("D")>> \o d \o td :
        a \in {<<>>, <<x_const(2)>>}, b \in {<<>>, <<x_const(2)>>},
        c \in {<<>>, <<x_const(2)>>}, d \in {<<>>, <<x_const(2)>>},
        ta \in {<<Jmp("C")>>, <<Jmp("D")>>},
        tb \in {<<Br("c", "C", "D")>>, <<Jmp("C")>>, <<Jmp("D")>>},
        tc \in {<<Jmp("D")>>, <<Br("c", "A", "D")>>, <<>>},
        td \in {<<Ret>>, <<print_instr("x"), Ret>>}}

InitPhi ==
    /\ pc = "input"
    /\ instrs \in PhiFunctions
    /\ cfg_class = NoCFG
    /\ out = NoOut
    /\ work = NoWork

\* the first steps of cfg_to_ssa; work is phi_blocks and defs as
\* find_phi_blocks leaves them
FindPhiBlocks ==
    /\ pc = "input"
    /\ LET c == create_cfg_from_function(instrs, FALSE)
           defs == get_defs_uses_types_inputs(c.cfg).defs
       IN  /\ cfg_class' = c
           /\ work' = IF c.err # "" THEN NoWork
                      ELSE [phi_blocks |-> find_phi_blocks(c.dominance_frontiers, defs),
                            defs |-> defs_after_phi(c.dominance_frontiers, defs)]
    /\ pc' = "phi_blocks"
    /\ UNCHANGED <<instrs, out>>

\* the next step of cfg_to_ssa: rename_variables renames the blocks of the
\* CFG in place and returns mapping_block_to_phi
RenameVariables ==
    /\ pc = "phi_blocks"
    /\ cfg_class.err = ""
    /\ LET st == rename_variables(cfg_class, work.phi_blocks, work.defs,
                                  get_defs_uses_types_inputs(cfg_class.cfg).input_variables)
       IN  /\ cfg_class' = IF st.err # "" THEN FailedCFG(st.err)
                           ELSE [cfg_class EXCEPT !.cfg.blocks = st.blocks]
           /\ work' = [phi_blocks |-> work.phi_blocks, defs |-> work.defs,
                       mapping_block_to_phi |-> st.mapping]
    /\ pc' = "renamed"
    /\ UNCHANGED <<instrs, out>>

NextPhi == FindPhiBlocks \/ RenameVariables

SpecPhi == InitPhi /\ [][NextPhi]_vars

(***************************************************************************)
(* C20.  After find_phi_blocks, for every variable defined in more than    *)
(* one block, every block in the dominance frontier of a block that        *)
(* defines the variable or has a phi for it has a phi for it: the phi      *)
(* blocks are closed under the dominance frontier.                         *)
(***************************************************************************)
C20_PhiBlocksClosed ==
    (pc = "phi_blocks" /\ cfg_class.err = "") =>
        LET defs == get_defs_uses_types_inputs(cfg_class.cfg).defs
            has_phi(block, v) == block \in DOMAIN work.phi_blocks /\ v \in work.phi_blocks[block]
        IN  \A v \in DOMAIN defs :
                Cardinality(defs[v]) > 1 =>
                    \A d \in Range(cfg_class.cfg.keys) :
                        (d \in defs[v] \/ has_phi(d, v))
                        => \A f \in cfg_class.dominance_frontiers[d] : has_phi(f, v)

\* the name on top of the stack of variable v when rename_helper leaves
\* block b ("undef" for an empty stack): the new dest of the last
\* definition of v in b, else the dest of the phi of v at b, else the name
\* b inherits from its parent in the dominance tree
RECURSIVE top_of_stack(_, _, _, _)
top_of_stack(original, renamed, b, v) ==
    LET old == original.cfg.blocks[b].instructions
        pushed == {i \in DOMAIN old :
                     /\ old[i].dest = v
                     /\ ~get_defs_uses_types_inputs(original.cfg).input_variables[v]}
        last_pushed == CHOOSE i \in pushed : \A j \in pushed : j <= i
    IN  IF pushed # {} THEN renamed.cfg_class.cfg.blocks[b].instructions[last_pushed].dest
        ELSE IF <<b, v>> \in DOMAIN renamed.mapping THEN renamed.mapping[<<b, v>>].dest
        ELSE IF original.dominance_tree.pred[b] = <<>> THEN "undef"
        ELSE top_of_stack(original, renamed, original.dominance_tree.pred[b][1], v)

(***************************************************************************)
(* C21.  After rename_variables every phi of a variable v at a block s has *)
(* exactly one (arg, label) pair for each CFG predecessor b of s, and the  *)
(* arg is the name on top of the stack of v at the end of b, also when the *)
(* definition it names is in a block that dominates b; the arg is undef    *)
(* only when that stack is empty.                                          *)
(***************************************************************************)
C21_PhiArguments ==
    (pc = "renamed" /\ cfg_class.err = "") =>
        LET original == create_cfg_from_function(instrs, FALSE)
            renamed == [cfg_class |-> cfg_class, mapping |-> work.mapping_block_to_phi]
        IN  \A t \in DOMAIN renamed.mapping :
                LET phi == renamed.mapping[t]
                    preds == original.cfg.blocks[t[1]].pred
                IN  /\ Len(phi.labels) = Len(phi.args)
                    /\ \A b \in Range(preds) :
                          Cardinality({i \in DOMAIN phi.labels : phi.labels[i] = b}) = 1
                    /\ \A i \in DOMAIN phi.labels :
                          /\ phi.labels[i] \in Range(preds)
                          /\ phi.args[i] = top_of_stack(original, renamed, phi.labels[i], t[2])

(***************************************************************************)
(* task4/aliasing.py.  A points-to state maps variables to sets of memory  *)
(* locations; the locations of alloc are the decimal numerals of           *)
(* unique_loc_num, next to the marker ALL_MEM_LOCATIONS.                   *)
(***************************************************************************)
ALL_MEM_LOCATIONS == "all_mem_locations"

\* AliasAnalysis.__init__: the variables used before defined point to ALL
seed_input_variables(input_variables_dict) ==
    [var \in {v \in DOMAIN input_variables_dict : input_variables_dict[v]} |->
        {ALL_MEM_LOCATIONS}]

merge_fn(inputs) ==
    IF inputs = <<>> THEN EmptyMap
    ELSE [key \in DOMAIN inputs[1] |->
            UNION {inputs[i][key] : i \in {j \in DOMAIN inputs : key \in DOMAIN inputs[j]}}]

add_to_set(dest, value, state_mapping) ==
    [v \in DOMAIN state_mapping \cup {dest} |->
        IF v = dest
        THEN (IF dest \in DOMAIN state_mapping THEN state_mapping[dest] ELSE {}) \cup value
        ELSE state_mapping[v]]

\* returns the state after the block and the location counter
RECURSIVE transfer_fn_from(_, _, _, _)
transfer_fn_from(instructions, i, state_mapping, unique_loc_num) ==
    IF i > Len(instructions)
    THEN [state_mapping |-> state_mapping, unique_loc_num |-> unique_loc_num]
    ELSE LET instr == instructions[i] IN
         CASE instr.op = "alloc" ->
                transfer_fn_from(instructions, i + 1,
                    add_to_set(instr.dest, {ToString(unique_loc_num + 1)}, state_mapping),
                    unique_loc_num + 1)
           [] instr.op \in {"id", "ptradd"} ->
                transfer_fn_from(instructions, i + 1,
                    IF instr.args[1] \in DOMAIN state_mapping
                    THEN add_to_set(instr.dest, state_mapping[instr.args[1]], state_mapping)
                    ELSE state_mapping,
                    unique_loc_num)
           [] instr.op = "load" ->
                transfer_fn_from(instructions, i + 1,
                    add_to_set(instr.dest, {ALL_MEM_LOCATIONS}, state_mapping), unique_loc_num)
           [] OTHER -> transfer_fn_from(instructions, i + 1, state_mapping, unique_loc_num)

transfer_fn(block, inputs, unique_loc_num) ==
    transfer_fn_from(block.instructions, 1, inputs, unique_loc_num)

\* final_outputs is None until the output of some block changes size
NoOutputs == [none |-> TRUE, state_mapping |-> EmptyMap]

\* one iteration of the while loop: the first block of the worklist is
\* popped and processed
alias_step(cfg, starting_input, w) ==
    LET label == Head(w.worklist)
        block == cfg.blocks[label]
        block_inputs ==
            IF label = DEFAULT_START_LABEL /\ DOMAIN starting_input # {}
            THEN <<starting_input>>
            ELSE [i \in DOMAIN block.pred |-> w.outputs[block.pred[i]]]
        merged == merge_fn(block_inputs)
        t == transfer_fn(block, merged, w.unique_loc_num)
        block_outputs == t.state_mapping
        changed == Cardinality(DOMAIN block_outputs) # Cardinality(DOMAIN w.outputs[label])
        rest == Tail(w.worklist)
    IN  [worklist |-> IF changed
                      THEN rest \o SelectSeq(block.succ,
                                             LAMBDA succ : succ \notin Range(rest))
                      ELSE rest,
         inputs |-> [w.inputs EXCEPT ![label] = merged],
         outputs |-> IF changed THEN [w.outputs EXCEPT ![label] = block_outputs]
                     ELSE w.outputs,
         final_outputs |-> IF changed
                           THEN [none |-> FALSE, state_mapping |-> block_outputs]
                           ELSE w.final_outputs,
         unique_loc_num |-> t.unique_loc_num]

RECURSIVE alias_worklist(_, _, _)
alias_worklist(cfg, starting_input, w) ==
    IF w.worklist = <<>> THEN w
    ELSE alias_worklist(cfg, starting_input, alias_step(cfg, starting_input, w))

\* the state of the engine before the while loop
alias_worklist_start(cfg) ==
    [worklist |-> cfg.keys,
     inputs |-> [label \in Range(cfg.keys) |-> EmptyMap],
     outputs |-> [label \in Range(cfg.keys) |-> EmptyMap],
     final_outputs |-> NoOutputs,
     unique_loc_num |-> 0]

worklist_algorithm(cfg, starting_input) ==
    alias_worklist(cfg, starting_input, alias_worklist_start(cfg))

\* compute_alias_analysis with the test of other_var's set for the marker
\* left out
alias_analysis_one_sided(state_mapping) ==
    [var \in DOMAIN state_mapping |->
        {other_var \in DOMAIN state_mapping :
            /\ var # other_var
            /\ \/ state_mapping[var] \cap state_mapping[other_var] # {}
               \/ ALL_MEM_LOCATIONS \in state_mapping[var]}
        \cup (IF ALL_MEM_LOCATIONS \in state_mapping[var] THEN {ALL_MEM_LOCATIONS} ELSE {})]

compute_alias_analysis(state_mapping) ==
    [var \in DOMAIN state_mapping |->
        {other_var \in DOMAIN state_mapping :
            /\ var # other_var
            /\ \/ state_mapping[var] \cap state_mapping[other_var] # {}
               \/ ALL_MEM_LOCATIONS \in state_mapping[var]
               \/ ALL_MEM_LOCATIONS \in state_mapping[other_var]}
        \cup (IF ALL_MEM_LOCATIONS \in state_mapping[var] THEN {ALL_MEM_LOCATIONS} ELSE {})]

remove_variable_and_aliases(alias_analysis, variable, last_store, instr) ==
    LET aliases == IF instr.args[1] \in DOMAIN alias_analysis
                   THEN alias_analysis[instr.args[1]] ELSE {}
    IN  IF ALL_MEM_LOCATIONS \in aliases THEN EmptyMap
        ELSE [v \in DOMAIN last_store \ ({variable} \cup aliases) |-> last_store[v]]

RECURSIVE remove_dead_stores(_, _, _, _, _)
remove_dead_stores(cfg_instructions, idx, alias_analysis, last_store, cfg_instructions_copy) ==
    IF idx > Len(cfg_instructions) THEN cfg_instructions_copy
    ELSE LET instr == cfg_instructions[idx] IN
         CASE instr.op = "ptradd" /\ instr.dest \in DOMAIN last_store ->
                remove_dead_stores(cfg_instructions, idx + 1, alias_analysis,
                    remove_variable_and_aliases(alias_analysis, instr.dest, last_store, instr),
                    cfg_instructions_copy)
           [] instr.op = "load" ->
                remove_dead_stores(cfg_instructions, idx + 1, alias_analysis,
                    remove_variable_and_aliases(alias_analysis, instr.args[1], last_store, instr),
                    cfg_instructions_copy)
           [] instr.op = "store" /\ instr.args[1] \in DOMAIN last_store ->
                remove_dead_stores(cfg_instructions, idx + 1, alias_analysis, last_store,
                    RemoveFirst(cfg_instructions_copy, instr))
           [] instr.op = "store" /\ instr.args[1] \notin DOMAIN last_store ->
                remove_dead_stores(cfg_instructions, idx + 1, alias_analysis,
                    [v \in DOMAIN last_store \cup {instr.args[1]} |->
                        IF v = instr.args[1] THEN idx - 1 ELSE last_store[v]],
                    cfg_instructions_copy)
           [] OTHER ->
                remove_dead_stores(cfg_instructions, idx + 1, alias_analysis, last_store,
                                   cfg_instructions_copy)

\* compute_alias_analysis iterates over final_output: TypeError when it is None
dead_store_elimination(c) ==
    LET info == get_defs_uses_types_inputs(c.cfg)
        w == worklist_algorithm(c.cfg, seed_input_variables(info.input_variables))
        cfg_instructions == instructions_from_cfg(c.cfg)
    IN  IF w.final_outputs.none THEN Raised("TypeError")
        ELSE Returned(remove_dead_stores(cfg_instructions, 1,
                        compute_alias_analysis(w.final_outputs.state_mapping),
                        EmptyMap, cfg_instructions))

(***************************************************************************)
(* Dead store elimination on functions that store and load through one     *)
(* pointer p, which is a parameter or the result of an alloc.              *)
(***************************************************************************)
MaxBody == 3        \* instructions in the body of the entry block

SeqsUpTo(S, n) == UNION {[1..k -> S] : k \in 0..n}

Store(p, v) == EffectOp("store", <<p, v>>)
Load(dest, p) == ValueOp("load", dest, "int", <<p>>)
Alloc(dest, n) == ValueOp("alloc", dest, "ptr", <<n>>)
PtrAdd(dest, p, i) == ValueOp("ptradd", dest, "ptr", <<p, i>>)

DseTails ==
    {<<>>} \cup
    {term \o <<Label("A")>> \o body \o termA :
        term \in {<<>>, <<Jmp("A")>>},
        body \in {<<>>, <<Store("p", "v1")>>, <<Load("w", "p")>>, <<print_instr("w")>>,
                  <<PtrAdd("p", "p", "i")>>},
        termA \in {<<>>, <<Ret>>, <<Jmp("A")>>}}

DseFunctions ==
    {prefix \o body \o tail :
        prefix \in {<<>>, <<Alloc("p", "n")>>},
        body \in SeqsUpTo({Store("p", "v1"), Store("p", "v2"), Load("w", "p")}, MaxBody),
        tail \in DseTails}

InitDSE ==
    /\ pc = "input"
    /\ instrs \in DseFunctions
    /\ cfg_class = NoCFG
    /\ out = NoOut
    /\ work = NoWork

\* CFG.create_cfg_from_function, then AliasAnalysis.dead_store_elimination
DeadStoreElimination ==
    /\ pc = "input"
    /\ LET c == create_cfg_from_function(instrs, FALSE)
       IN  /\ cfg_class' = c
           /\ out' = IF c.err # "" THEN Raised(c.err) ELSE dead_store_elimination(c)
    /\ pc' = "dse"
    /\ UNCHANGED <<instrs, work>>

NextDSE == DeadStoreElimination

SpecDSE == InitDSE /\ [][NextDSE]_vars

stores_through(instructions, p) ==
    {i \in DOMAIN instructions : instructions[i].op = "store" /\ instructions[i].args[1] = p}
loads_between(instructions, i, j) ==
    {k \in (i + 1)..(j - 1) : instructions[k].op = "load"}
pointers(instructions) ==
    {instructions[i].args[1] : i \in {k \in DOMAIN instructions : instructions[k].op = "store"}}

(***************************************************************************)
(* C4.  When two stores through the same pointer have no load between      *)
(* them, dead store elimination drops the earlier and keeps the later one: *)
(* the last store through p of the output is the last store of the input.  *)
(***************************************************************************)
C4_KeepsLaterStore ==
    (pc = "dse" /\ out.err = "") =>
        \A p \in pointers(instrs) :
            \A i, j \in stores_through(instrs, p) :
                (/\ i < j
                 /\ loads_between(instrs, i, j) = {}
                 /\ \A k \in stores_through(instrs, p) : k <= j)
                => /\ stores_through(out.instrs, p) # {}
                   /\ \E m \in stores_through(out.instrs, p) :
                        /\ out.instrs[m] = instrs[j]
                        /\ \A k \in stores_through(out.instrs, p) : k <= m

(***************************************************************************)
(* C5.  Dead store elimination removes no store whose pointer is a         *)
(* parameter of the function (a variable used before any definition).      *)
(***************************************************************************)
C5_ParameterStoresKept ==
    (pc = "dse" /\ out.err = "") =>
        \A p \in pointers(instrs) :
            get_defs_uses_types_inputs(cfg_class.cfg).input_variables[p]
            => Cardinality(stores_through(out.instrs, p))
                 = Cardinality(stores_through(instrs, p))

\* s is t with zero or more elements left out
RECURSIVE is_subsequence(_, _)
is_subsequence(s, t) ==
    IF s = <<>> THEN TRUE
    ELSE IF t = <<>> THEN FALSE
    ELSE IF Head(s) = Head(t) THEN is_subsequence(Tail(s), Tail(t))
    ELSE is_subsequence(s, Tail(t))

(***************************************************************************)
(* C29.  On every function whose CFG can be built, one without alloc,      *)
(* load, store and input variable included, dead_store_elimination         *)
(* completes and returns the input list with zero or more stores deleted:  *)
(* every other instruction is present, unchanged and in its original       *)
(* order.                                                                  *)
(***************************************************************************)
C29_OnlyStoresDeleted ==
    (pc = "dse" /\ cfg_class.err = "") =>
        LET not_store(instr) == instr.op # "store"
        IN  /\ out.err = ""
            /\ is_subsequence(out.instrs, instrs)
            /\ SelectSeq(out.instrs, not_store) = SelectSeq(instrs, not_store)

(***************************************************************************)
(* compute_alias_analysis on every points-to map of at most three          *)
(* variables over two locations and the marker ALL_MEM_LOCATIONS.          *)
(***************************************************************************)
AliasVariables == {"p", "q", "r"}
MemLocations == {"1", "2", ALL_MEM_LOCATIONS}
StateMappings == UNION {[vs -> SUBSET MemLocations] : vs \in SUBSET AliasVariables}

InitAlias ==
    /\ pc = "state_mapping"
    /\ instrs = <<>>
    /\ cfg_class = NoCFG
    /\ out = NoOut
    /\ work \in StateMappings

\* work is state_mapping, out the alias map returned for it
ComputeAliasAnalysis ==
    /\ pc = "state_mapping"
    /\ out' = compute_alias_analysis(work)
    /\ pc' = "alias_analysis"
    /\ UNCHANGED <<instrs, cfg_class, work>>

NextAlias == ComputeAliasAnalysis

SpecAlias == InitAlias /\ [][NextAlias]_vars

(***************************************************************************)
(* C15.  In the map compute_alias_analysis returns, b is an alias of a     *)
(* exactly when a is an alias of b, for all variables a and b of the map,  *)
(* and no variable is an alias of itself.                                  *)
(***************************************************************************)
C15_AliasSymmetry ==
    pc = "alias_analysis" =>
        /\ DOMAIN out = DOMAIN work
        /\ \A a \in DOMAIN out :
            /\ a \notin out[a]
            /\ \A b \in DOMAIN out : (b \in out[a]) <=> (a \in out[b])

\* two variables are aliases only because one of them points to
\* ALL_MEM_LOCATIONS, and a third variable is an alias of neither
C15_Witness ==
    /\ pc = "alias_analysis"
    /\ \E a, b, c \in DOMAIN work :
        /\ ALL_MEM_LOCATIONS \in work[a]
        /\ work[b] = {}
        /\ b \in out[a] /\ a \in out[b]
        /\ work[c] \cap work[b] = {} /\ c \notin out[b] /\ b \notin out[c]

(***************************************************************************)
(* merge_fn of the points-to client on every list of at most MaxInputs     *)
(* states over two variables and two locations.                            *)
(***************************************************************************)
MaxInputs == 2      \* states in the list given to merge_fn

MergeStates == UNION {[vs -> SUBSET {"1", ALL_MEM_LOCATIONS}] : vs \in SUBSET {"p", "q"}}

InitMerge ==
    /\ pc = "inputs"
    /\ instrs = <<>>
    /\ cfg_class = NoCFG
    /\ out = NoOut
    /\ work \in SeqsUpTo(MergeStates, MaxInputs)

MergeFn ==
    /\ pc = "inputs"
    /\ out' = merge_fn(work)
    /\ pc' = "merge_fn"
    /\ UNCHANGED <<instrs, cfg_class, work>>

NextMerge == MergeFn

SpecMerge == InitMerge /\ [][NextMerge]_vars

(***************************************************************************)
(* C26.  merge_fn returns a map whose keys are the variables that are a    *)
(* key of any input, each with the union of its sets over the inputs that  *)
(* have it, whatever the order of the inputs.                              *)
(***************************************************************************)
C26_MergePointwiseUnion ==
    pc = "merge_fn" =>
        /\ DOMAIN out = UNION {DOMAIN work[i] : i \in DOMAIN work}
        /\ \A v \in DOMAIN out :
              out[v] = UNION {work[i][v] : i \in {j \in DOMAIN work : v \in DOMAIN work[j]}}
        /\ out = merge_fn([i \in DOMAIN work |-> work[Len(work) + 1 - i]])

(***************************************************************************)
(* task3/licm.py.  Positions of instructions in a block count from 1.      *)
(* Python iterates a set of labels, or of edges, in an order that depends  *)
(* on the hash seed: licm takes the order of the loop nodes and of the     *)
(* back edges as sequences of all labels.                                  *)
(***************************************************************************)
variable_use_def_blocks(cfg) ==
    LET all == labelled_instructions(cfg)
        used == UNION {Range(all[p].instr.args) : p \in DOMAIN all}
        defined == {all[p].instr.dest : p \in {q \in DOMAIN all : HasDest(all[q].instr)}}
        last_def(v) == CHOOSE p \in DOMAIN all :
                        all[p].instr.dest = v
                        /\ \A q \in DOMAIN all : all[q].instr.dest = v => q <= p
    IN  [use_blocks |-> [v \in used |->
                           {<<all[p].block, all[p].idx>> :
                               p \in {q \in DOMAIN all : v \in Range(all[q].instr.args)}}],
         def_blocks |-> [v \in defined |-> <<all[last_def(v)].block, all[last_def(v)].idx>>]]

instruction_can_error(instr) == instr.op \in {"free", "load", "store", "phi"}
instruction_is_terminating(instr) == instr.op \in TERMINATING_INSTRUCTIONS

in_order(S, order) == SelectSeq(order, LAMBDA l : l \in S)
edges_in_order(es, order) ==
    SelectSeq(Concat([t \in DOMAIN order |-> [h \in DOMAIN order |-> <<order[t], order[h]>>]]),
              LAMBDA e : e \in es)

\* one sweep of the while True loop: the instructions of the loop nodes whose
\* arguments are all defined outside the loop or by an invariant instruction
RECURSIVE loop_invariant_instructions(_, _, _, _)
loop_invariant_instructions(blocks, nodes, def_block, loop_invariant) ==
    LET known(instr) == {arg \in Range(instr.args) : arg \in DOMAIN def_block}
        new_loop_invariant ==
            loop_invariant \cup
            {t \in UNION {{b} \X DOMAIN blocks[b].instructions : b \in nodes} :
                LET instr == blocks[t[1]].instructions[t[2]] IN
                /\ HasArgs(instr)
                /\ \/ \A arg \in known(instr) : def_block[arg][1] \notin nodes
                   \/ \A arg \in known(instr) : def_block[arg] \in loop_invariant}
    IN  IF new_loop_invariant = loop_invariant THEN loop_invariant
        ELSE loop_invariant_instructions(blocks, nodes, def_block, new_loop_invariant)

RECURSIVE add_to_preheaders(_, _, _, _)
add_to_preheaders(blocks, preheader_blocks, k, instruction) ==
    IF k > Len(preheader_blocks) THEN blocks
    ELSE LET target == blocks[preheader_blocks[k]].instructions IN
         add_to_preheaders(
            [blocks EXCEPT ![preheader_blocks[k]].instructions =
                IF target = <<>> \/ ~instruction_is_terminating(Last(target))
                THEN Append(target, instruction)
                ELSE InsertAt(target, Len(target), instruction)],
            preheader_blocks, k + 1, instruction)

\* the while loop over one block of the loop; st is [err, blocks]
RECURSIVE hoist_block(_, _, _, _, _)
hoist_block(ctx, st, block_name, i, og_idx) ==
    IF st.err # "" \/ i > Len(st.blocks[block_name].instructions) THEN st
    ELSE
    LET instruction == st.blocks[block_name].instructions[i]
        dest == instruction.dest
        uses == IF dest \in DOMAIN ctx.use_block
                THEN {u \in ctx.use_block[dest] : block_name \notin ctx.dominators[u[1]]}
                ELSE {}
        non_dominated_uses == {st.blocks[u[1]].instructions[u[2]] : u \in uses}
        skip == hoist_block(ctx, st, block_name, i + 1, og_idx + 1)
    IN  IF <<block_name, og_idx>> \notin ctx.loop_invariant THEN skip
        ELSE IF ~HasDest(instruction) \/ dest = "" THEN skip
        ELSE IF dest \notin DOMAIN ctx.use_block THEN skip
        ELSE IF \E u \in uses : u[2] > Len(st.blocks[u[1]].instructions)
        THEN [st EXCEPT !.err = "IndexError"]
        ELSE IF ~(\A inst \in non_dominated_uses :
                    inst.op = "phi" /\ Range(inst.labels) \subseteq ctx.nodes)
        THEN skip
        ELSE IF instruction.op \in SPECIAL_OPERATIONS \/ instruction_can_error(instruction)
        THEN skip
        ELSE LET added == add_to_preheaders(st.blocks, ctx.preheader_blocks, 1, instruction)
             IN  hoist_block(ctx,
                    [st EXCEPT !.blocks =
                        [added EXCEPT ![block_name].instructions = RemoveAt(@, i)]],
                    block_name, i, og_idx + 1)

RECURSIVE hoist_nodes(_, _, _, _)
hoist_nodes(ctx, st, nodes, k) ==
    IF k > Len(nodes) THEN st
    ELSE hoist_nodes(ctx, hoist_block(ctx, st, nodes[k], 1, 1), nodes, k + 1)

\* the body of `for backedge in cfg_class.back_edges`
licm_backedge(c, info, st, backedge, node_order) ==
    LET tail == backedge[1]
        header == backedge[2]
        loop_info == get_loop_information(c, backedge)
        preheader_blocks == Range(c.cfg.blocks[header].pred) \ loop_info.nodes
    IN  IF st.err # "" \/ ~reachable(c.cfg, DEFAULT_START_LABEL, tail) THEN st
        ELSE IF loop_info.err # "" THEN [st EXCEPT !.err = loop_info.err]
        ELSE hoist_nodes(
                [use_block |-> info.use_blocks, dominators |-> c.dominators,
                 nodes |-> loop_info.nodes,
                 preheader_blocks |-> in_order(preheader_blocks, node_order),
                 loop_invariant |-> loop_invariant_instructions(st.blocks, loop_info.nodes,
                                                                 info.def_blocks, {})],
                st, in_order(loop_info.nodes, node_order), 1)

RECURSIVE licm_backedges(_, _, _, _, _, _)
licm_backedges(c, info, st, back_edges, k, node_order) ==
    IF k > Len(back_edges) THEN st
    ELSE licm_backedges(c, info, licm_backedge(c, info, st, back_edges[k], node_order),
                        back_edges, k + 1, node_order)

\* licm after its first line: c is the CFG object of the function
licm_of_cfg(c, function, node_order, edge_order) ==
    IF c.err # "" THEN Raised(c.err)
    ELSE IF Len(c.cfg.keys) <= 1 THEN Returned(function)
    ELSE IF ~c.reducible THEN Returned(function)
    ELSE LET st == licm_backedges(c, variable_use_def_blocks(c.cfg),
                                  [err |-> "", blocks |-> c.cfg.blocks],
                                  edges_in_order(c.back_edges, edge_order), 1,
                                  node_order)
         IN  IF st.err # "" THEN Raised(st.err)
             ELSE Returned(instructions_from_cfg([c.cfg EXCEPT !.blocks = st.blocks]))

licm(function, node_order, edge_order) ==
    licm_of_cfg(create_cfg_from_function(function, FALSE), function, node_order, edge_order)

(***************************************************************************)
(* LICM on loops with header A, latches B and C and exit D.  The header    *)
(* computes x from p and q, which are parameters or constants of the entry *)
(* block; a latch may compute y from a value it loads.                     *)
(***************************************************************************)
Reverse(s) == [i \in DOMAIN s |-> s[Len(s) + 1 - i]]
\* the orders in which the sets of labels of a function are iterated: the
\* movable instructions sit in two blocks, so a sequence and its reverse
\* give every relative order of the two
SetOrders(instructions) ==
    LET labels == SelectSeq(instructions, HasLabel)
        keys == <<DEFAULT_START_LABEL>> \o [i \in DOMAIN labels |-> labels[i].label]
    IN  {keys, Reverse(keys)}

x_add == ValueOp("add", "x", "int", <<"p", "q">>)
y_add == ValueOp("add", "y", "int", <<"r", "r">>)
LicmValuations ==
    {[c |-> c, d |-> d, p |-> IntVal(1), q |-> IntVal(2), ptr |-> IntVal(0)] :
        c \in {BoolVal(TRUE), BoolVal(FALSE)}, d \in {BoolVal(TRUE), BoolVal(FALSE)}}

LicmFunctions ==
    {f \in
        {entry \o eterm
           \o <<Label("A")>> \o hbody \o hterm
           \o <<Label("B")>> \o bbody \o bterm
           \o <<Label("C")>> \o cbody \o cterm
           \o <<Label("D")>> \o dbody \o <<Ret>> :
            entry \in {<<>>, <<Const("p", "int", IntVal(1)), Const("q", "int", IntVal(2))>>},
            eterm \in {<<>>, <<Jmp("A")>>},
            hbody \in {<<>>, <<x_add>>, <<x_add, print_instr("x")>>},
            hterm \in {<<Br("c", "B", "C")>>, <<Br("c", "B", "D")>>},
            bbody \in {<<>>, <<print_instr("x")>>, <<x_add>>,
                       <<Load("r", "ptr"), y_add, print_instr("y")>>},
            bterm \in {<<Jmp("A")>>, <<Br("d", "A", "D")>>},
            cbody \in {<<>>},
            cterm \in {<<Jmp("A")>>, <<Br("d", "A", "D")>>, <<Jmp("D")>>},
            dbody \in {<<>>, <<print_instr("x")>>}} :
        WellFormed(f, LicmValuations)}

InitLICM ==
    /\ pc = "input"
    /\ instrs \in LicmFunctions
    /\ cfg_class = NoCFG
    /\ out = NoOut
    /\ work = NoWork

Licm(node_order, edge_order) ==
    /\ pc = "input"
    /\ LET c == create_cfg_from_function(instrs, FALSE)
       IN  /\ cfg_class' = c
           /\ out' = licm_of_cfg(c, instrs, node_order, edge_order)
    /\ pc' = "licm"
    /\ UNCHANGED <<instrs, work>>

NextLICM ==
    \E node_order \in SetOrders(instrs), edge_order \in SetOrders(instrs) :
        Licm(node_order, edge_order)

SpecLICM == InitLICM /\ [][NextLICM]_vars

\* the label of the block that holds position k of an instruction list
block_at(instructions, k) ==
    LET ls == {i \in 1..k : HasLabel(instructions[i])}
    IN  IF ls = {} THEN DEFAULT_START_LABEL
        ELSE instructions[CHOOSE i \in ls : \A j \in ls : j <= i].label
\* the instructions of block l
block_of(instructions, l) ==
    SelectSeq([k \in DOMAIN instructions |->
                  IF block_at(instructions, k) = l THEN instructions[k] ELSE Label("")],
              LAMBDA instr : instr # Label(""))

\* the loop of header h by the textbook definitions: its latches are the
\* predecessors that h dominates, its nodes reach a latch without passing h
latches(cfg, h) ==
    {t \in Range(cfg.blocks[h].pred) :
        t \in Reach(edges(cfg), DEFAULT_START_LABEL) /\ OnEveryPath(cfg, h, t)}
natural_loop(cfg, h) ==
    {h} \cup {n \in Range(cfg.keys) :
                latches(cfg, h) \cap
                Reach({e \in edges(cfg) : e[1] # h /\ e[2] # h}, n) # {}}
preheaders(cfg, h) == Range(cfg.blocks[h].pred) \ natural_loop(cfg, h)

(***************************************************************************)
(* C6.  When the header A of a loop holds `x = add p q` and p and q are    *)
(* defined only outside the loop, the output of licm has the instruction   *)
(* in the preheader, before its terminator, and in no block of the loop.   *)
(***************************************************************************)
C6_HoistedToPreheader ==
    (/\ pc = "licm" /\ out.err = ""
     /\ latches(cfg_class.cfg, "A") # {}
     /\ x_add \in Range(block_of(instrs, "A"))
     /\ \A n \in natural_loop(cfg_class.cfg, "A") : \A i \in DOMAIN block_of(instrs, n) :
            block_of(instrs, n)[i].dest \notin {"p", "q"})
    => /\ \A h \in preheaders(cfg_class.cfg, "A") :
            LET b == block_of(out.instrs, h) IN
            \E i \in DOMAIN b :
                b[i] = x_add /\ (instruction_is_terminating(Last(b)) => i < Len(b))
       /\ \A n \in natural_loop(cfg_class.cfg, "A") :
            x_add \notin Range(block_of(out.instrs, n))

(***************************************************************************)
(* C7.  Every instruction that licm moved into a block finds its operands  *)
(* assigned on every run that reaches it.                                  *)
(***************************************************************************)
C7_HoistedOperandsDefined ==
    (pc = "licm" /\ out.err = "") =>
        \A params \in LicmValuations :
            LET r == execute(out.instrs, params, 4 * MaxSteps) IN
            r.status = "unassigned"
            => out.instrs[r.ip] \in Range(block_of(instrs, block_at(out.instrs, r.ip)))

(***************************************************************************)
(* C18.  Every instruction of the input function is in the list licm       *)
(* returns: an instruction taken out of a loop block has been put into a   *)
(* preheader.                                                              *)
(***************************************************************************)
C18_NoInstructionLost ==
    (pc = "licm" /\ out.err = "") =>
        \A i \in DOMAIN instrs : \E j \in DOMAIN out.instrs : out.instrs[j] = instrs[i]

(***************************************************************************)
(* task3/dce.py: global_dead_code.  The for loop removes from the list it  *)
(* iterates, so the instruction after a removed one is skipped.            *)
(***************************************************************************)
used_variables(instructions) == UNION {Range(instructions[i].args) : i \in DOMAIN instructions}

\* the second for loop: i is the position the list iterator reads next
RECURSIVE remove_unused(_, _, _, _)
remove_unused(instructions, i, used, changed) ==
    IF i > Len(instructions) THEN [instrs |-> instructions, changed |-> changed]
    ELSE LET instr == instructions[i] IN
         IF HasDest(instr) /\ instr.dest \notin used
         THEN remove_unused(RemoveFirst(instructions, instr), i + 1, used, TRUE)
         ELSE remove_unused(instructions, i + 1, used, changed)

RECURSIVE global_dead_code(_)
global_dead_code(instructions) ==
    LET r == remove_unused(instructions, 1, used_variables(instructions), FALSE)
    IN  IF r.changed THEN global_dead_code(r.instrs) ELSE r.instrs

(***************************************************************************)
(* task4/pass_processor.py: liveness_analysis on the reversed CFG.         *)
(***************************************************************************)
liveness_merge_fn(inputs) == UNION Range(inputs)

\* the instructions of the block from the last to the first
RECURSIVE liveness_transfer_fn(_, _, _)
liveness_transfer_fn(instructions, i, alive) ==
    IF i = 0 THEN alive
    ELSE liveness_transfer_fn(instructions, i - 1,
            (alive \ {instructions[i].dest}) \cup Range(instructions[i].args))

\* liveness_step without the test of the size of the output: the output
\* is stored and no block is put back on the worklist
liveness_step_no_requeue(cfg, w) ==
    LET label == Head(w.worklist)
        block == cfg.blocks[label]
        merged == liveness_merge_fn([i \in DOMAIN block.pred |-> w.outputs[block.pred[i]]])
    IN  [worklist |-> Tail(w.worklist),
         inputs |-> [w.inputs EXCEPT ![label] = merged],
         outputs |-> [w.outputs EXCEPT ![label] =
                        liveness_transfer_fn(block.instructions, Len(block.instructions),
                                             merged)]]

\* liveness_step that puts the successors back whether or not the output
\* changed
liveness_step_always_requeue(cfg, w) ==
    LET label == Head(w.worklist)
        block == cfg.blocks[label]
        merged == liveness_merge_fn([i \in DOMAIN block.pred |-> w.outputs[block.pred[i]]])
        rest == Tail(w.worklist)
    IN  [worklist |-> rest \o SelectSeq(block.succ, LAMBDA succ : succ \notin Range(rest)),
         inputs |-> [w.inputs EXCEPT ![label] = merged],
         outputs |-> [w.outputs EXCEPT ![label] =
                        liveness_transfer_fn(block.instructions, Len(block.instructions),
                                             merged)]]

\* one iteration of the while loop: the first block of the worklist is
\* popped and processed
liveness_step(cfg, w) ==
    LET label == Head(w.worklist)
        block == cfg.blocks[label]
        merged == liveness_merge_fn([i \in DOMAIN block.pred |-> w.outputs[block.pred[i]]])
        block_outputs == liveness_transfer_fn(block.instructions,
                                              Len(block.instructions), merged)
        changed == Cardinality(block_outputs) # Cardinality(w.outputs[label])
        rest == Tail(w.worklist)
    IN  [worklist |-> IF changed
                      THEN rest \o SelectSeq(block.succ,
                                             LAMBDA succ : succ \notin Range(rest))
                      ELSE rest,
         inputs |-> [w.inputs EXCEPT ![label] = merged],
         outputs |-> IF changed THEN [w.outputs EXCEPT ![label] = block_outputs]
                     ELSE w.outputs]

RECURSIVE liveness_worklist(_, _)
liveness_worklist(cfg, w) ==
    IF w.worklist = <<>> THEN w ELSE liveness_worklist(cfg, liveness_step(cfg, w))

\* the state of the engine before the while loop
liveness_worklist_start(cfg) ==
    [worklist |-> cfg.keys,
     inputs |-> [label \in Range(cfg.keys) |-> {}],
     outputs |-> [label \in Range(cfg.keys) |-> {}]]

liveness_worklist_algorithm(cfg) ==
    liveness_worklist(cfg, liveness_worklist_start(cfg))

\* the inner for loop over the copy of the block: removes from the block of
\* the CFG the instructions whose dest is neither live out nor used later
RECURSIVE remove_dead(_, _, _, _)
remove_dead(copied, idx, live, actual) ==
    IF idx > Len(copied) THEN actual
    ELSE LET instr == copied[idx]
             can_remove == \A k \in (idx + 1)..Len(copied) : instr.dest \notin Range(copied[k].args)
         IN  remove_dead(copied, idx + 1, live,
                IF HasDest(instr) /\ instr.dest \notin live /\ can_remove
                THEN RemoveFirst(actual, instr) ELSE actual)

\* the loop over the blocks; a block left without instructions is unlinked,
\* and pred.add_successor on the label of a predecessor raises AttributeError
RECURSIVE liveness_remove(_, _, _, _)
liveness_remove(st, all_keys, k, inputSet) ==
    IF st.err # "" \/ k > Len(all_keys) THEN st
    ELSE LET label == all_keys[k]
             block == st.cfg.blocks[label]
             remaining == remove_dead(block.instructions, 1, inputSet[label],
                                      block.instructions)
         IN  IF remaining # <<>>
             THEN liveness_remove(
                    [st EXCEPT !.cfg.blocks[label].instructions = remaining],
                    all_keys, k + 1, inputSet)
             ELSE IF block.pred # <<>> \/ block.succ # <<>>
             THEN [st EXCEPT !.err = "AttributeError"]
             ELSE liveness_remove(
                    [st EXCEPT !.cfg.keys = SelectSeq(@, LAMBDA l : l # label)],
                    all_keys, k + 1, inputSet)

liveness_analysis(instructions) ==
    LET c == create_cfg_from_function(instructions, TRUE) IN
    IF c.err # "" THEN Raised(c.err)
    ELSE LET w == liveness_worklist_algorithm(c.cfg)
             st == liveness_remove([err |-> "", cfg |-> c.cfg], c.cfg.keys, 1, w.inputs)
         IN  IF st.err # "" THEN Raised(st.err)
             ELSE Returned(instructions_from_cfg(st.cfg))

\* the for loop of local_dead_code over one block; last_def maps a variable
\* to the position of its last definition not yet used.  block.pop is no
\* method of BasicBlock: the call raises AttributeError
RECURSIVE local_dead_block(_, _, _)
local_dead_block(instructions, i, last_def) ==
    IF i > Len(instructions) THEN ""
    ELSE LET instr == instructions[i]
             popped == [v \in DOMAIN last_def \ Range(instr.args) |-> last_def[v]]
         IN  IF ~HasDest(instr) THEN local_dead_block(instructions, i + 1, popped)
             ELSE IF instr.dest \in DOMAIN popped THEN "AttributeError"
             ELSE local_dead_block(instructions, i + 1,
                    [v \in DOMAIN popped \cup {instr.dest} |->
                        IF v = instr.dest THEN i - 1 ELSE popped[v]])

local_dead_code(instructions) ==
    LET blocks == create_blocks_from_function(instructions)
        errs == {local_dead_block(blocks[b].instructions, 1, EmptyMap) : b \in DOMAIN blocks}
    IN  IF "AttributeError" \in errs THEN Raised("AttributeError")
        ELSE Returned(Concat([b \in DOMAIN blocks |-> blocks[b].instructions]))

(***************************************************************************)
(* Dead code elimination on functions that call, print and copy.           *)
(***************************************************************************)
Call(dest) == ValueOp("call", dest, "int", <<>>)

DceTails ==
    {<<>>} \cup
    {term \o <<Label("A")>> \o body \o termA :
        term \in {<<>>, <<Br("c", "A", "A")>>},
        body \in {<<>>, <<print_instr("x")>>, <<Call("x")>>, <<print_instr("y")>>},
        termA \in {<<>>, <<Ret>>, <<Jmp("A")>>}}

DceFunctions ==
    {body \o tail :
        body \in SeqsUpTo({Call("x"), print_instr("x"), ValueOp("id", "y", "int", <<"x">>)},
                          MaxBody),
        tail \in DceTails}

InitDCE ==
    /\ pc = "input"
    /\ instrs \in DceFunctions
    /\ cfg_class = NoCFG
    /\ out = NoOut
    /\ work = NoWork

GlobalDeadCode ==
    /\ pc = "input"
    /\ out' = Returned(global_dead_code(instrs))
    /\ pc' = "global_dead_code"
    /\ UNCHANGED <<instrs, cfg_class, work>>

LivenessAnalysis ==
    /\ pc = "input"
    /\ out' = liveness_analysis(instrs)
    /\ pc' = "liveness_analysis"
    /\ UNCHANGED <<instrs, cfg_class, work>>

LocalDeadCode ==
    /\ pc = "input"
    /\ out' = local_dead_code(instrs)
    /\ pc' = "local_dead_code"
    /\ UNCHANGED <<instrs, cfg_class, work>>

NextDCE == GlobalDeadCode \/ LivenessAnalysis \/ LocalDeadCode

SpecDCE == InitDCE /\ [][NextDCE]_vars

occurrences(instructions, instr) ==
    Cardinality({i \in DOMAIN instructions : instructions[i] = instr})

(***************************************************************************)
(* C8.  Every store, print, call, free, ret, jmp and br of the input is    *)
(* still in the output of liveness_analysis and of global_dead_code,       *)
(* whether or not it has a dest whose value is unused.                     *)
(***************************************************************************)
C8_EffectsKept ==
    (pc \in {"global_dead_code", "liveness_analysis"} /\ out.err = "") =>
        \A i \in DOMAIN instrs :
            instrs[i].op \in {"store", "print", "call", "free", "ret", "jmp", "br"}
            => occurrences(out.instrs, instrs[i]) >= occurrences(instrs, instrs[i])

(***************************************************************************)
(* C13.  On every function, global_dead_code, local_dead_code and          *)
(* liveness_analysis each return an instruction list that is not longer    *)
(* than the input list.                                                    *)
(***************************************************************************)
C13_NeverLonger ==
    pc \in {"global_dead_code", "local_dead_code", "liveness_analysis"} =>
        /\ out.err = ""
        /\ Len(out.instrs) <= Len(instrs)

(***************************************************************************)
(* C30.  When liveness_analysis removes every instruction of a block (an   *)
(* unlabeled first block of dead definitions that falls through to a       *)
(* labeled block, for one), the pass completes, the block is taken out and *)
(* the instructions that remain in the other blocks are returned in order. *)
(***************************************************************************)
C30_EmptyBlockSplice ==
    pc = "liveness_analysis" =>
        LET c == create_cfg_from_function(instrs, TRUE)
            live == liveness_worklist_algorithm(c.cfg).inputs
            remaining(b) == remove_dead(c.cfg.blocks[b].instructions, 1, live[b],
                                        c.cfg.blocks[b].instructions)
        IN  (c.err = "" /\ \E b \in Range(c.cfg.keys) : remaining(b) = <<>>) =>
                /\ out.err = ""
                /\ out.instrs = Concat([k \in DOMAIN c.cfg.keys |-> remaining(c.cfg.keys[k])])

(***************************************************************************)
(* The two worklist engines, one iteration of the while loop at a time, on *)
(* functions of three blocks that allocate, copy and print pointers: the   *)
(* liveness client of WorkListPasses.worklist_algorithm on the reverse CFG *)
(* and the points-to client of AliasAnalysis.worklist_algorithm.           *)
(***************************************************************************)
WorklistBodies ==
    {<<>>, <<Alloc("p", "n")>>, <<ValueOp("id", "q", "ptr", <<"p">>)>>, <<print_instr("q")>>}

WorklistFunctions ==
    {entry \o te \o <<Label("A")>> \o a \o ta \o <<Label("B")>> \o b \o tb :
        entry \in (WorklistBodies \ {<<>>}) \cup {<<Nop>>},
        a \in WorklistBodies, b \in WorklistBodies,
        te \in {<<>>, <<Br("c", "A", "B")>>},
        ta \in {<<>>, <<Jmp("A")>>, <<Br("c", "A", "B")>>},
        tb \in {<<>>, <<Ret>>, <<Jmp("A")>>, <<Br("c", "A", "B")>>}}

InitWorklist ==
    /\ pc = "input"
    /\ instrs \in WorklistFunctions
    /\ cfg_class = NoCFG
    /\ out = NoOut
    /\ work = NoWork

\* liveness_analysis up to the while loop of worklist_algorithm
LivenessStart ==
    /\ pc = "input"
    /\ LET c == create_cfg_from_function(instrs, TRUE)
       IN  /\ cfg_class' = c
           /\ work' = IF c.err # "" THEN NoWork ELSE liveness_worklist_start(c.cfg)
           /\ pc' = IF c.err # "" THEN "raised" ELSE "liveness"
    /\ UNCHANGED <<instrs, out>>

LivenessStep ==
    /\ pc = "liveness"
    /\ work.worklist # <<>>
    /\ work' = liveness_step(cfg_class.cfg, work)
    /\ UNCHANGED <<pc, instrs, cfg_class, out>>

LivenessReturn ==
    /\ pc = "liveness"
    /\ work.worklist = <<>>
    /\ pc' = "liveness_returned"
    /\ UNCHANGED <<instrs, cfg_class, out, work>>

\* the seeds that AliasAnalysis.__init__ passes as starting_input
starting_input(c) ==
    seed_input_variables(get_defs_uses_types_inputs(c.cfg).input_variables)

\* the state of the points-to engine together with the starting_input
\* argument of the call
alias_engine(w, seeds) ==
    [worklist |-> w.worklist, inputs |-> w.inputs, outputs |-> w.outputs,
     final_outputs |-> w.final_outputs, unique_loc_num |-> w.unique_loc_num,
     starting_input |-> seeds]

\* AliasAnalysis.__init__ up to the while loop of worklist_algorithm
AliasStart ==
    /\ pc = "input"
    /\ LET c == create_cfg_from_function(instrs, FALSE)
       IN  /\ cfg_class' = c
           /\ work' = IF c.err # "" THEN NoWork
                      ELSE alias_engine(alias_worklist_start(c.cfg), starting_input(c))
           /\ pc' = IF c.err # "" THEN "raised" ELSE "alias"
    /\ UNCHANGED <<instrs, out>>

AliasStep ==
    /\ pc = "alias"
    /\ work.worklist # <<>>
    /\ work' = alias_engine(alias_step(cfg_class.cfg, work.starting_input, work),
                            work.starting_input)
    /\ UNCHANGED <<pc, instrs, cfg_class, out>>

AliasReturn ==
    /\ pc = "alias"
    /\ work.worklist = <<>>
    /\ pc' = "alias_returned"
    /\ UNCHANGED <<instrs, cfg_class, out, work>>

NextWorklist ==
    \/ LivenessStart
    \/ LivenessStep
    \/ LivenessReturn
    \/ AliasStart
    \/ AliasStep
    \/ AliasReturn

SpecWorklist == InitWorklist /\ [][NextWorklist]_vars

\* the interpreter runs a while loop it has entered: an iteration, or the
\* return, that can be taken is taken
WorklistLoop == LivenessStep \/ LivenessReturn \/ AliasStep \/ AliasReturn
FairWorklist == SpecWorklist /\ WF_vars(WorklistLoop)

\* the variables live at the top of a block when live_out are live at its
\* end: those read by an instruction that no earlier instruction of the
\* block assigns, and those of live_out that the block does not assign
live_in(instructions, live_out) ==
    {v \in live_out : \A i \in DOMAIN instructions : instructions[i].dest # v}
    \cup {v \in UNION {Range(instructions[i].args) : i \in DOMAIN instructions} :
            \E i \in DOMAIN instructions :
                /\ v \in Range(instructions[i].args)
                /\ \A j \in 1..(i - 1) : instructions[j].dest # v}

(***************************************************************************)
(* C24.  When worklist_algorithm returns for the liveness client, every    *)
(* block B has inputs[B] equal to the union of outputs[p] over the pred    *)
(* list of B (its successors in the program) and outputs[B] equal to the   *)
(* transfer of B applied to inputs[B]: no state is left that was computed  *)
(* from an outdated neighbour.                                             *)
(***************************************************************************)
C24_LivenessFixedPoint ==
    pc = "liveness_returned" =>
        \A B \in Range(cfg_class.cfg.keys) :
            LET block == cfg_class.cfg.blocks[B]
            IN  /\ work.inputs[B] = UNION {work.outputs[p] : p \in Range(block.pred)}
                /\ work.outputs[B] = live_in(block.instructions, work.inputs[B])

\* the engine has returned for a CFG with a loop of two blocks in which a
\* variable is live that one block of the loop hands to the other
C24_Witness ==
    /\ pc = "liveness_returned"
    /\ \E B \in Range(cfg_class.cfg.keys) :
          \E p \in Range(cfg_class.cfg.blocks[B].pred) \ {B} :
              /\ B \in Reach(edges(cfg_class.cfg), p)
              /\ p \in Reach(edges(cfg_class.cfg), B)
              /\ work.outputs[p] # {}
              /\ work.outputs[p] \subseteq work.outputs[B]

(***************************************************************************)
(* C25.  On every CFG, cyclic ones included, each of the two worklist      *)
(* engines eventually empties its worklist and returns: the liveness       *)
(* client, and the points-to client, which takes a new location number     *)
(* each time it processes an alloc.                                        *)
(***************************************************************************)
C25_WorklistTermination ==
    (pc \in {"liveness", "alias"}) ~> (pc \in {"liveness_returned", "alias_returned"})

\* the points-to engine has returned after it processed an alloc on a cycle
\* more than once
C25_Witness ==
    /\ pc = "alias_returned"
    /\ \E e \in edges(cfg_class.cfg) : e[1] \in Reach(edges(cfg_class.cfg), e[2])
    /\ work.unique_loc_num > Cardinality({i \in DOMAIN instrs : instrs[i].op = "alloc"})

(***************************************************************************)
(* C27.  The points-to state from which the alias relation is derived      *)
(* (final_output) has an entry for every variable that has a points-to     *)
(* set in the out-state of any block when the worklist ends, so that two   *)
(* variables of different blocks whose sets intersect or contain ALL are   *)
(* reported as may-alias.                                                  *)
(***************************************************************************)
C27_AliasMapCoverage ==
    pc = "alias_returned" =>
        LET tracked == UNION {DOMAIN work.outputs[b] : b \in Range(cfg_class.cfg.keys)}
            points_to(v) == UNION {work.outputs[b][v] :
                                     b \in {l \in Range(cfg_class.cfg.keys) :
                                              v \in DOMAIN work.outputs[l]}}
            final_output == work.final_outputs.state_mapping
        IN  /\ tracked \subseteq DOMAIN final_output
            /\ \A u, v \in tracked :
                  (u # v /\ (points_to(u) \cap points_to(v) # {}
                             \/ ALL_MEM_LOCATIONS \in points_to(u) \cup points_to(v)))
                  => u \in compute_alias_analysis(final_output)[v]

(***************************************************************************)
(* Python values as task2/lvn.py computes with them.  Numbers compare by   *)
(* value whatever their type (True == 1, 2.0 == 2); a str is never equal   *)
(* to a number and is ordered only against a str.                          *)
(***************************************************************************)
\* the words of the strings of the model, in the order of Python's str
Words == <<"a", "b", "c", "false", "lvn.0", "lvn.1", "lvn.2", "lvn.3", "lvn.4", "r",
           "s", "t", "true", "x", "y", "z">>
word_index(w) == CHOOSE i \in DOMAIN Words : Words[i] = w

IsNum(v) == v.k \in {"int", "bool", "float"}
Abs(i) == IF i < 0 THEN -i ELSE i
RECURSIVE Gcd(_, _)
Gcd(a, b) == IF b = 0 THEN a ELSE Gcd(b, a % b)
\* the float n/d, d # 0
FloatVal(n, d) ==
    LET g == Gcd(Abs(n), Abs(d))
        sign == IF d < 0 THEN -1 ELSE 1
    IN  [k |-> "float", n |-> sign * (n \div g), d |-> sign * (d \div g), s |-> <<>>]

py_eq(a, b) ==
    IF IsNum(a) /\ IsNum(b) THEN a.n * b.d = b.n * a.d
    ELSE a.k = "str" /\ b.k = "str" /\ a.s = b.s

RECURSIVE words_lt(_, _)
words_lt(s, t) ==
    IF t = <<>> THEN FALSE
    ELSE IF s = <<>> THEN TRUE
    ELSE IF Head(s) # Head(t) THEN word_index(Head(s)) < word_index(Head(t))
    ELSE words_lt(Tail(s), Tail(t))

\* a < b; only for two numbers or two strs
py_lt(a, b) == IF IsNum(a) THEN a.n * b.d < b.n * a.d ELSE words_lt(a.s, b.s)
py_comparable(a, b) == (IsNum(a) /\ IsNum(b)) \/ (a.k = "str" /\ b.k = "str")
py_truthy(v) == IF IsNum(v) THEN v.n # 0 ELSE v.s # <<>>
py_is_float(a, b) == a.k = "float" \/ b.k = "float"

Value(v) == [err |-> "", value |-> v]
PyError(e) == [err |-> e, value |-> NoVal]

RECURSIVE repeat_words(_, _)
repeat_words(s, n) == IF n <= 0 THEN <<>> ELSE s \o repeat_words(s, n - 1)

py_add(x, y) ==
    IF IsNum(x) /\ IsNum(y)
    THEN Value(IF py_is_float(x, y) THEN FloatVal(x.n * y.d + y.n * x.d, x.d * y.d)
               ELSE IntVal(x.n + y.n))
    ELSE IF x.k = "str" /\ y.k = "str" THEN Value(StrVal(x.s \o y.s))
    ELSE PyError("TypeError")
py_sub(x, y) ==
    IF IsNum(x) /\ IsNum(y)
    THEN Value(IF py_is_float(x, y) THEN FloatVal(x.n * y.d - y.n * x.d, x.d * y.d)
               ELSE IntVal(x.n - y.n))
    ELSE PyError("TypeError")
py_mul(x, y) ==
    IF IsNum(x) /\ IsNum(y)
    THEN Value(IF py_is_float(x, y) THEN FloatVal(x.n * y.n, x.d * y.d)
               ELSE IntVal(x.n * y.n))
    ELSE IF x.k = "str" /\ y.k \in {"int", "bool"} THEN Value(StrVal(repeat_words(x.s, y.n)))
    ELSE IF y.k = "str" /\ x.k \in {"int", "bool"} THEN Value(StrVal(repeat_words(y.s, x.n)))
    ELSE PyError("TypeError")
\* x / y is Python's true division
py_div(x, y) ==
    IF ~(IsNum(x) /\ IsNum(y)) THEN PyError("TypeError")
    ELSE IF y.n = 0 THEN PyError("ZeroDivisionError")
    ELSE Value(FloatVal(x.n * y.d, x.d * y.n))

str_of_bool(value) == StrVal(IF value THEN <<"true">> ELSE <<"false">>)

\* the table `operations` of compute
operations(op, x, y) ==
    CASE op = "ne" -> Value(str_of_bool(~py_eq(x, y)))
      [] op = "eq" -> Value(str_of_bool(py_eq(x, y)))
      [] op \in {"le", "lt", "gt", "ge"} ->
            IF ~py_comparable(x, y) THEN PyError("TypeError")
            ELSE Value(str_of_bool(CASE op = "le" -> ~py_lt(y, x)
                                     [] op = "lt" -> py_lt(x, y)
                                     [] op = "gt" -> py_lt(y, x)
                                     [] op = "ge" -> ~py_lt(x, y)))
      [] op = "not" -> Value(str_of_bool(~py_truthy(x)))
      [] op = "and" -> Value(str_of_bool(py_truthy(x) /\ py_truthy(y)))
      [] op = "or" -> Value(str_of_bool(py_truthy(x) \/ py_truthy(y)))
      [] op = "add" -> py_add(x, y)
      [] op = "mul" -> py_mul(x, y)
      [] op = "sub" -> py_sub(x, y)
      [] op = "div" -> py_div(x, y)
FoldedOperations ==
    {"ne", "eq", "le", "lt", "gt", "ge", "not", "and", "or", "add", "mul", "sub", "div"}
BoolOperations == {"ne", "eq", "le", "lt", "gt", "ge", "not", "and", "or"}

(***************************************************************************)
(* task2/lvn.py.  A value number is the Python int num (tuples[num] is     *)
(* tuples[num.n + 1] here); env maps a name to a value number or, after    *)
(* `id` of an unknown variable, to the name of that variable (a str);      *)
(* table[num]['name'] is names[num.n + 1].                                 *)
(***************************************************************************)
RECURSIVE sorted_insert(_, _)
sorted_insert(s, v) ==
    IF s = <<>> THEN <<v>>
    ELSE IF py_lt(v, Head(s)) THEN <<v>> \o s
    ELSE <<Head(s)>> \o sorted_insert(Tail(s), v)
RECURSIVE sorted(_)
sorted(s) == IF s = <<>> THEN <<>> ELSE sorted_insert(sorted(SubSeq(s, 1, Len(s) - 1)), Last(s))
\* sorted raises TypeError when it compares a str with an int
sortable(s) == \A i, j \in DOMAIN s : py_comparable(s[i], s[j])

value_tuple_eq(t, u) ==
    /\ t.op = u.op
    /\ Len(t.args) = Len(u.args)
    /\ \A i \in DOMAIN t.args : py_eq(t.args[i], u.args[i])

Computed(instr) == [err |-> "", instr |-> instr]
ComputeError(e) == [err |-> e, instr |-> Label("")]
const_instr(dest, type, value) == Instr("const", dest, type, <<>>, <<>>, value)

\* the and / or loops of the any_const_operands branch: the first argument
\* in env whose tuple starts with a value equal to `literal` folds the op
RECURSIVE partial_evaluation(_, _, _, _, _)
partial_evaluation(instr, env, tuples, i, literal) ==
    IF i > Len(instr.args) THEN Computed(instr)
    ELSE LET arg_name == instr.args[i] IN
         IF arg_name \notin DOMAIN env
         THEN partial_evaluation(instr, env, tuples, i + 1, literal)
         ELSE IF env[arg_name].k = "str" THEN ComputeError("TypeError")
         ELSE IF py_eq(tuples[env[arg_name].n + 1].args[1], BoolVal(literal))
         THEN Computed(const_instr(instr.dest, "bool", str_of_bool(literal)))
         ELSE partial_evaluation(instr, env, tuples, i + 1, literal)

\* any(self.tuples[num][0] == 'const' for num in local_args): stops at the
\* first constant, raises TypeError on a str before it
RECURSIVE any_const(_, _, _)
any_const(local_args, tuples, i) ==
    IF i > Len(local_args) THEN [err |-> "", any |-> FALSE]
    ELSE IF local_args[i].k = "str" THEN [err |-> "TypeError", any |-> FALSE]
    ELSE IF tuples[local_args[i].n + 1].op = "const" THEN [err |-> "", any |-> TRUE]
    ELSE any_const(local_args, tuples, i + 1)

\* compute after all_const_operands and any_const_operands are known
fold(instr, env, tuples, arg_nums, all_const_operands, any_const_operands) ==
    LET op == instr.op IN
    IF all_const_operands
    THEN LET args == [i \in DOMAIN arg_nums |-> tuples[arg_nums[i].n + 1].args[1]] IN
         IF op \notin FoldedOperations THEN Computed(instr)
         ELSE IF (op = "not" /\ Len(args) < 1) \/ (op # "not" /\ Len(args) # 2)
         THEN ComputeError("TypeError")
         ELSE LET r == operations(op, args[1], IF op = "not" THEN args[1] ELSE args[2]) IN
              IF r.err # "" THEN ComputeError(r.err)
              ELSE Computed(const_instr(instr.dest,
                                        IF op \in BoolOperations THEN "bool" ELSE "int",
                                        r.value))
    ELSE IF any_const_operands
    THEN IF op = "and" THEN partial_evaluation(instr, env, tuples, 1, FALSE)
         ELSE IF op = "or" THEN partial_evaluation(instr, env, tuples, 1, TRUE)
         ELSE Computed(instr)
    ELSE IF Cardinality(Range(instr.args)) = 1
    THEN IF op \in {"eq", "le", "ge"}
         THEN Computed(const_instr(instr.dest, "bool", str_of_bool(TRUE)))
         ELSE IF op \in {"ne", "lt", "gt"}
         THEN Computed(const_instr(instr.dest, "bool", str_of_bool(FALSE)))
         ELSE Computed(instr)
    ELSE Computed(instr)

compute(instr, env, tuples) ==
    IF ~HasDest(instr) \/ ~HasOp(instr) \/ instr.op \in SPECIAL_OPERATIONS THEN Computed(instr)
    ELSE IF ~HasArgs(instr) THEN Computed(instr)
    ELSE IF \A arg \in Range(instr.args) : arg \in DOMAIN env
    THEN LET nums == [i \in DOMAIN instr.args |-> env[instr.args[i]]] IN
         IF instr.op = "id" THEN Computed(instr)
         ELSE IF ~sortable(nums) THEN ComputeError("TypeError")
         ELSE IF \E i \in DOMAIN nums : nums[i].k = "str" THEN Computed(instr)
         ELSE LET arg_nums == sorted(nums)
                  is_const(i) == tuples[arg_nums[i].n + 1].op = "const"
              IN  fold(instr, env, tuples, arg_nums,
                       \A i \in DOMAIN arg_nums : is_const(i),
                       \E i \in DOMAIN arg_nums : is_const(i))
    ELSE LET local_args == SelectSeq([i \in DOMAIN instr.args |->
                                         IF instr.args[i] \in DOMAIN env
                                         THEN env[instr.args[i]] ELSE NoVal],
                                     LAMBDA v : v # NoVal)
             a == any_const(local_args, tuples, 1)
         IN  IF a.err # "" THEN ComputeError(a.err)
             ELSE fold(instr, env, tuples, <<>>, FALSE, a.any)

is_overwritten(dest, rest) == \E i \in DOMAIN rest : rest[i].dest = dest

\* the position of the first tuple equal to value_tuple, 0 when there is none
tuples_index(tuples, value_tuple) ==
    IF \E i \in DOMAIN tuples : value_tuple_eq(tuples[i], value_tuple)
    THEN CHOOSE i \in DOMAIN tuples :
            /\ value_tuple_eq(tuples[i], value_tuple)
            /\ \A j \in 1..(i - 1) : ~value_tuple_eq(tuples[j], value_tuple)
    ELSE 0

\* the value tuple of instr: its literal, the sorted value numbers of its
\* arguments, or the names of its arguments when one is not in env
value_tuple_of(instr, known, nums) ==
    LET first_tuple ==
            IF ~HasArgs(instr) THEN [op |-> instr.op, args |-> <<instr.value>>]
            ELSE IF known THEN [op |-> instr.op, args |-> sorted(nums)]
            ELSE [op |-> instr.op,
                  args |-> [i \in DOMAIN instr.args |-> StrVal(<<instr.args[i]>>)]]
    IN  IF instr.op \in COMMUTATIVE_OPERATIONS
        THEN [first_tuple EXCEPT !.args = sorted(@)] ELSE first_tuple

\* the table lookup of the loop body, on the instruction with its arguments
\* renamed; found is the position of value_tuple in tuples or 0
number_instruction(block, idx, st, renamed, value_tuple, found) ==
    LET dest == renamed.dest IN
    IF found # 0
    THEN [st EXCEPT
            !.env = [v \in DOMAIN st.env \cup {dest} |->
                        IF v = dest THEN IntVal(found - 1) ELSE st.env[v]],
            !.new_block = Append(@,
                IF st.tuples[found].op # "const"
                THEN [renamed EXCEPT !.op = "id", !.args = <<st.names[found]>>]
                ELSE renamed)]
    ELSE IF renamed.op = "id"
    THEN LET num == value_tuple.args[1]
             is_const == num.k = "int" /\ st.tuples[num.n + 1].op = "const"
         IN  [st EXCEPT
                !.env = [v \in DOMAIN st.env \cup {dest} |->
                            IF v = dest THEN num ELSE st.env[v]],
                !.new_block = Append(@,
                    IF is_const
                    THEN [renamed EXCEPT !.op = "const",
                                         !.value = st.tuples[num.n + 1].args[1]]
                    ELSE renamed)]
    ELSE LET num == Len(st.tuples)
             overwritten == is_overwritten(dest, SubSeq(block, idx + 1, Len(block)))
             name == IF overwritten THEN "lvn." \o ToString(st.unique_id) ELSE dest
         IN  [st EXCEPT
                !.tuples = Append(@, value_tuple),
                !.names = Append(@, name),
                !.unique_id = IF name # dest THEN @ + 1 ELSE @,
                !.env = [v \in DOMAIN st.env \cup {dest} |->
                            IF v = dest THEN IntVal(num) ELSE st.env[v]],
                !.new_block = Append(@, [renamed EXCEPT !.dest = name])]

\* the loop body after compute returned c
process_computed(block, idx, st, c) ==
    LET instr == c.instr
        known == HasArgs(instr) /\ \A arg \in Range(instr.args) : arg \in DOMAIN st.env
        nums == [i \in DOMAIN instr.args |-> st.env[instr.args[i]]]
    IN  IF c.err # "" THEN [st EXCEPT !.err = c.err]
        ELSE IF \/ ~HasOp(instr) \/ instr.op = "nop" \/ instr.labels # <<>>
                \/ instr.op \in TERMINATING_INSTRUCTIONS \/ instr.op \in SPECIAL_OPERATIONS
        THEN [st EXCEPT !.new_block = Append(@, instr)]
        ELSE IF instr.op = "id" /\ instr.args[1] = instr.dest THEN st
        ELSE IF known /\ ~sortable(nums) THEN [st EXCEPT !.err = "TypeError"]
        ELSE IF known /\ \E i \in DOMAIN nums : nums[i].k = "str"
        THEN [st EXCEPT !.err = "KeyError"]
        ELSE number_instruction(block, idx, st,
                 [instr EXCEPT !.args = IF known
                                        THEN [i \in DOMAIN nums |-> st.names[nums[i].n + 1]]
                                        ELSE @],
                 value_tuple_of(instr, known, nums),
                 tuples_index(st.tuples, value_tuple_of(instr, known, nums)))

\* one iteration of the for loop of process_block; st holds env, tuples,
\* names, unique_id and new_block
process_instruction(block, idx, st) ==
    process_computed(block, idx, st, compute(block[idx], st.env, st.tuples))

RECURSIVE process_block_from(_, _, _)
process_block_from(block, idx, st) ==
    IF st.err # "" \/ idx > Len(block) THEN st
    ELSE CHOOSE result \in {process_block_from(block, idx + 1, next) :
                                next \in {process_instruction(block, idx, st)}} : TRUE

\* process_block of an instance whose counter is unique_id
process_block(block, unique_id) ==
    process_block_from(block, 1,
        [err |-> "", env |-> EmptyMap, tuples |-> <<>>, names |-> <<>>,
         unique_id |-> unique_id, new_block |-> <<>>])

\* pass_block with no incoming value tuples, on a fresh instance
pass_block(block) ==
    LET st == process_block(block, 0)
    IN  IF st.err # "" THEN Raised(st.err) ELSE Returned(st.new_block)

\* run on one function: process_block is handed the BasicBlock objects of
\* create_blocks_from_function, and enumerate(block) raises TypeError
run(instructions) ==
    IF create_blocks_from_function(instructions) = <<>> THEN Returned(<<>>)
    ELSE Raised("TypeError")

(***************************************************************************)
(* Local value numbering on one block of at most MaxBody instructions over *)
(* constants, copies and operations on the incoming variables r and s.     *)
(***************************************************************************)
LvnInstructions ==
    {Const("a", "int", IntVal(5)), Const("b", "int", IntVal(3)),
     Const("t", "bool", BoolVal(TRUE)),
     ValueOp("sub", "c", "int", <<"a", "b">>), ValueOp("add", "c", "int", <<"a", "b">>),
     ValueOp("lt", "c", "bool", <<"a", "b">>),
     ValueOp("id", "y", "bool", <<"t">>), ValueOp("and", "z", "bool", <<"y", "r">>),
     Const("b", "int", IntVal(0)), ValueOp("div", "c", "int", <<"a", "b">>),
     ValueOp("id", "a", "int", <<"r">>),
     ValueOp("add", "x", "int", <<"r", "s">>), ValueOp("add", "y", "int", <<"s", "r">>)}

LvnBlocks == SeqsUpTo(LvnInstructions, MaxBody)

InitLVN ==
    /\ pc = "input"
    /\ instrs \in LvnBlocks
    /\ cfg_class = NoCFG
    /\ out = NoOut
    /\ work = NoWork

\* process_block on the instruction list of a block, as pass_block calls it
ProcessBlock ==
    /\ pc = "input"
    /\ out' = pass_block(instrs)
    /\ pc' = "process_block"
    /\ UNCHANGED <<instrs, cfg_class, work>>

\* LocalValueNumbering().run on the program whose one function is instrs
Run ==
    /\ pc = "input"
    /\ out' = run(instrs)
    /\ pc' = "run"
    /\ UNCHANGED <<instrs, cfg_class, work>>

NextLVN == ProcessBlock \/ Run

SpecLVN == InitLVN /\ [][NextLVN]_vars

\* the constant instruction that gives arg its value at position i of the
\* block: the last definition of arg before i, when that is a const
literal_at(block, i, arg) ==
    LET ds == {k \in 1..(i - 1) : block[k].dest = arg}
        k == CHOOSE k \in ds : \A j \in ds : j <= k
    IN  IF ds # {} /\ block[k].op = "const" THEN block[k].value ELSE NoVal

\* the op on its literals in the order of the instruction's arguments
folded_value(op, x, y) ==
    CASE op = "add" -> IntVal(x.n + y.n)
      [] op = "sub" -> IntVal(x.n - y.n)
      [] op = "mul" -> IntVal(x.n * y.n)
      [] op = "eq" -> BoolVal(x.n = y.n)
      [] op = "ne" -> BoolVal(x.n # y.n)
      [] op = "lt" -> BoolVal(x.n < y.n)
      [] op = "le" -> BoolVal(x.n <= y.n)
      [] op = "gt" -> BoolVal(x.n > y.n)
      [] op = "ge" -> BoolVal(x.n >= y.n)
      [] op = "and" -> BoolVal(x.n = 1 /\ y.n = 1)
      [] op = "or" -> BoolVal(x.n = 1 \/ y.n = 1)

(***************************************************************************)
(* C9.  When both arguments of an arithmetic, comparison or logic op are   *)
(* constants of the block, the block that process_block returns has in its *)
(* place a const of the op applied to the literals in the order of the     *)
(* arguments, of type int for arithmetic and bool otherwise (the bool is   *)
(* accepted in the spelling of str_of_bool).                               *)
(***************************************************************************)
C9_FoldedInArgumentOrder ==
    (pc = "process_block" /\ out.err = "") =>
        \A i \in DOMAIN instrs :
            LET instr == instrs[i]
                x == literal_at(instrs, i, instr.args[1])
                y == literal_at(instrs, i, instr.args[2])
                expected == folded_value(instr.op, x, y)
            IN  (/\ instr.op \in {"add", "sub", "mul", "eq", "ne", "lt", "le", "gt", "ge",
                                  "and", "or"}
                 /\ x # NoVal /\ y # NoVal
                 /\ x.k = y.k
                 /\ (x.k = "bool") = (instr.op \in {"and", "or"}))
                => /\ out.instrs[i].op = "const"
                   /\ out.instrs[i].type = expected.k
                   /\ \/ out.instrs[i].value = expected
                      \/ /\ expected.k = "bool"
                         /\ out.instrs[i].value = str_of_bool(expected.n = 1)

(***************************************************************************)
(* C10.  Running LocalValueNumbering.run on the output of a first run      *)
(* returns exactly the instruction list the first run produced.            *)
(***************************************************************************)
C10_RunIdempotent ==
    pc = "run" => (out.err = "" /\ run(out.instrs) = out)

PureOperations ==
    {"add", "sub", "mul", "div", "eq", "ne", "lt", "le", "gt", "ge", "and", "or"}

\* instruction j computes what the earlier instruction i computes: the same
\* op on the same arguments (in either order for a commutative op), none of
\* them assigned from i up to j
recomputes(block, i, j) ==
    /\ i < j
    /\ block[i].op = block[j].op
    /\ block[j].op \in PureOperations
    /\ Len(block[j].args) = 2
    /\ \/ block[i].args = block[j].args
       \/ /\ block[j].op \in COMMUTATIVE_OPERATIONS
          /\ block[i].args = <<block[j].args[2], block[j].args[1]>>
    /\ \A k \in i..(j - 1) : block[k].dest \notin Range(block[j].args)

\* compute leaves instruction j alone: its arguments are not all constants
\* of the block, and none is when the op is and / or
not_folded(block, j) ==
    LET consts == {n \in DOMAIN block[j].args :
                      literal_at(block, j, block[j].args[n]) # NoVal}
    IN  IF block[j].op \in {"and", "or"} THEN consts = {}
        ELSE consts # DOMAIN block[j].args

(***************************************************************************)
(* C11.  An instruction of a block that recomputes an earlier instruction  *)
(* of the block (same pure op, same arguments, in either order for add,    *)
(* mul, and, or, eq, ne; no argument assigned in between) and that compute *)
(* does not fold is, in the block process_block returns, an `id` of the    *)
(* destination of such an earlier instruction, whether the arguments are   *)
(* defined in the block or come into it.                                   *)
(***************************************************************************)
C11_RedundancyEliminated ==
    pc = "process_block" =>
        \A j \in DOMAIN instrs :
            ((\E i \in DOMAIN instrs : recomputes(instrs, i, j)) /\ not_folded(instrs, j))
            => /\ out.err = ""
               /\ out.instrs[j].op = "id"
               /\ \E i \in DOMAIN instrs :
                    /\ recomputes(instrs, i, j)
                    /\ out.instrs[j].args = <<out.instrs[i].dest>>

(***************************************************************************)
(* C12.  A `div` whose arguments are both constants of the block and whose *)
(* divisor is the constant 0 is not folded and does not abort the pass:    *)
(* process_block returns, and the block it returns has the div instruction *)
(* in its place.                                                           *)
(***************************************************************************)
C12_DivisionByZeroKept ==
    pc = "process_block" =>
        \A j \in DOMAIN instrs :
            (/\ instrs[j].op = "div"
             /\ literal_at(instrs, j, instrs[j].args[1]) # NoVal
             /\ literal_at(instrs, j, instrs[j].args[2]) = IntVal(0))
            => /\ out.err = ""
               /\ out.instrs[j] = instrs[j]

(***************************************************************************)
(* The meaning of a block: the value each variable holds after the block   *)
(* has run from a valuation of the variables that come into it.  A const   *)
(* written as 'true' / 'false' or as a float of integral value is read as  *)
(* the bool or int it spells.  An op on operands of the wrong type, on an  *)
(* unassigned variable, or a division by zero, leaves the run stuck.       *)
(***************************************************************************)
literal_value(v) ==
    IF v = StrVal(<<"true">>) THEN BoolVal(TRUE)
    ELSE IF v = StrVal(<<"false">>) THEN BoolVal(FALSE)
    ELSE IF v.k = "float" /\ v.d = 1 THEN IntVal(v.n)
    ELSE v

quotient(x, y) ==
    LET q == Abs(x) \div Abs(y) IN IF (x < 0) = (y < 0) THEN q ELSE -q

block_op(op, x, y) ==
    IF op \in {"and", "or"}
    THEN IF x.k = "bool" /\ y.k = "bool" THEN folded_value(op, x, y) ELSE Unassigned
    ELSE IF x.k # "int" \/ y.k # "int" THEN Unassigned
    ELSE IF op = "div" THEN IF y.n = 0 THEN Unassigned ELSE IntVal(quotient(x.n, y.n))
    ELSE folded_value(op, x, y)

RECURSIVE block_env(_, _, _)
block_env(block, i, env) ==
    IF i > Len(block) THEN [stuck |-> FALSE, env |-> env]
    ELSE LET instr == block[i]
             value == IF instr.op = "const" THEN literal_value(instr.value)
                      ELSE IF \E n \in DOMAIN instr.args : env[instr.args[n]] = Unassigned
                      THEN Unassigned
                      ELSE IF instr.op = "id" THEN env[instr.args[1]]
                      ELSE block_op(instr.op, env[instr.args[1]], env[instr.args[2]])
         IN  IF value = Unassigned THEN [stuck |-> TRUE, env |-> env]
             ELSE block_env(block, i + 1, [env EXCEPT ![instr.dest] = value])

\* the variables read in the block before the block assigns them
incoming(block) ==
    {v \in variables_of(block) :
        \E i \in DOMAIN block :
            v \in Range(block[i].args) /\ \A k \in 1..(i - 1) : block[k].dest # v}

IncomingValues(v) ==
    IF v \in {"t", "y", "z"} THEN {BoolVal(TRUE), BoolVal(FALSE)}
    ELSE IF v = "r" THEN {BoolVal(TRUE), BoolVal(FALSE), IntVal(3), IntVal(5)}
    ELSE {IntVal(3), IntVal(5)}

Valuations(block) ==
    {params \in [incoming(block) -> UNION {IncomingValues(v) : v \in incoming(block)}] :
        \A v \in incoming(block) : params[v] \in IncomingValues(v)}

block_result(block, other, params) ==
    block_env(block, 1,
              [v \in variables_of(block) \cup variables_of(other) |->
                  IF v \in DOMAIN params THEN params[v] ELSE Unassigned])

(***************************************************************************)
(* C17.  For every valuation of the incoming variables on which the input  *)
(* block runs to its end, the block process_block returns runs to its end  *)
(* too and leaves in every variable the input block defines the value the  *)
(* input block leaves in it.                                               *)
(***************************************************************************)
C17_BlockSemantics ==
    (pc = "process_block" /\ out.err = "") =>
        \A params \in Valuations(instrs) :
            LET before == block_result(instrs, out.instrs, params)
                after == block_result(out.instrs, instrs, params)
            IN  ~before.stuck =>
                    /\ ~after.stuck
                    /\ \A i \in DOMAIN instrs :
                        after.env[instrs[i].dest] = before.env[instrs[i].dest]

=============================================================================
